---- MODULE Spec2Model ----
(***************************************************************************)
(* A model of the processed-dataset layout, the demo ingestor and the      *)
(* dataset indexer of cs2_analytics.data_io (demos.py, indexing.py), and   *)
(* of summarize_pacing of cs2_analytics.data_processing.metrics.           *)
(*                                                                         *)
(* The processed tree is a value (root), the operations of the layout, the *)
(* ingestor and the indexer are actions, and what they compute             *)
(* (_summarise_table, _update_manifest, the joins of summarize_pacing) is  *)
(* a set of operators computed the way the code computes them.             *)
(***************************************************************************)
EXTENDS Integers, Sequences, FiniteSets, TLC

VARIABLES
    root,       \* the processed tree: demo name -> entry under <root>
    indexFile,  \* <root>/_manifest.json: [kind, doc]
    strategy,   \* the indexer's IndexingStrategy
    table,      \* the table handed to _summarise_table: [name, frame]
    op,         \* the last operation: its name, its arguments, the outcome
                \* before it (prev) and the state it began in (before)
    ret,        \* its outcome: what it returned or raised
    clock,      \* the wall clock read by datetime.now
    manifestFile,  \* <root>/manifest.json, the ingestion manifest: [kind, entries]
    sourceFiles,   \* the names of the demo files under source_root
    DemoParser,    \* the parser class imported from awpy, or "None"
    metrics        \* the frames handed to summarize_pacing: [ttfk, ttbp, avg_death]

vars == <<root, indexFile, strategy, table, op, ret, clock,
          manifestFile, sourceFiles, DemoParser, metrics>>

----------------------------------------------------------------------------
(* Bounds of the model. *)

\* The largest number of rows of a table.
MaxRows == 2

\* The largest number of operations of one behaviour (caps the clock).
MaxCalls == 2

\* The largest number of paths handed to ingest.
MaxPaths == 2

\* The largest round_number of a metric frame.
MaxRound == 3

----------------------------------------------------------------------------
(* Generic helpers on sequences. *)

Range(s) == {s[i] : i \in DOMAIN s}

\* The sequence s with its elements in the opposite order.
Reverse(s) == [i \in 1..Len(s) |-> s[Len(s) + 1 - i]]

\* The sequence s rotated left by k places.
Rotate(s, k) ==
    IF Len(s) = 0 THEN s
    ELSE [i \in 1..Len(s) |-> s[((i - 1 + k) % Len(s)) + 1]]

\* Lexicographic order on sequences of integers (byte strings, code points).
RECURSIVE LexLess(_, _)
LexLess(a, b) ==
    IF Len(a) = 0 THEN Len(b) > 0
    ELSE IF Len(b) = 0 THEN FALSE
    ELSE IF a[1] # b[1] THEN a[1] < b[1]
    ELSE LexLess(Tail(a), Tail(b))

----------------------------------------------------------------------------
(* Python values held by a table and the conversions the indexer applies.  *)

\* A cell of a frame as the Python value to_list / iter_rows hands out:
\* None, an int (v is the number) or a str (v indexes StringPool).
None == [kind |-> "None", v |-> 0]
PyInt(n) == [kind |-> "int", v |-> n]
PyStr(i) == [kind |-> "str", v |-> i]

\* The strings a String column may hold, as UTF-8 bytes: "T", "CT".
StringPool == << <<84>>, <<67, 84>> >>

\* The polars dtype of each column name used by the model, as str(dtype).
Dtype(column) ==
    CASE column = "round_number" -> "Int64"
      [] column = "winning_side" -> "String"
      [] OTHER -> "Int64"

\* dtype.is_numeric()
IsNumeric(dtype) == dtype \in {"Int64", "Float64"}

\* The values a cell of a column of this dtype may hold.
Cells(dtype) ==
    IF dtype = "String" THEN {None} \cup {PyStr(i) : i \in DOMAIN StringPool}
    ELSE {None, PyInt(1), PyInt(12)}

\* The decimal digits of a natural number, as code points ('0' is 48).
RECURSIVE Digits(_)
Digits(n) == IF n < 10 THEN <<48 + n>> ELSE Digits(n \div 10) \o <<48 + (n % 10)>>

\* str(value).encode("utf-8")
Encoded(value) ==
    CASE value.kind = "int" -> Digits(value.v)
      [] value.kind = "str" -> StringPool[value.v]
      [] OTHER -> <<78, 111, 110, 101>>

\* The order polars' sort gives the values of one column: nulls first, then
\* numbers by value and strings by their bytes.
ValueLess(x, y) ==
    IF x.kind = "None" THEN y.kind # "None"
    ELSE IF y.kind = "None" THEN FALSE
    ELSE IF x.kind = "int" THEN x.v < y.v
    ELSE LexLess(StringPool[x.v], StringPool[y.v])

\* _coerce_json: a scalar is neither a Path, a Series, a DataFrame nor an Enum
\* and is returned as it is.
CoerceJson(value) == value

\* No frame handed to summarize_pacing.
NoMetrics == [ttfk |-> <<>>, ttbp |-> <<>>, avg_death |-> <<>>]

----------------------------------------------------------------------------
(* Frames: the materialised content of one table file. *)

\* frame.columns of the tables the model builds.
ColumnLists ==
    { <<"round_number">>, <<"winning_side">>, <<"round_number", "winning_side">> }

\* Every frame with these columns and at most MaxRows rows.
FramesWith(columns) ==
    UNION { { [columns |-> columns, height |-> n, data |-> d] :
                d \in { f \in [Range(columns) -> [1..n -> Cells("Int64") \cup Cells("String")]] :
                          \A c \in Range(columns) : \A i \in 1..n : f[c][i] \in Cells(Dtype(c)) } } :
            n \in 0..MaxRows }

Frames == UNION { FramesWith(columns) : columns \in ColumnLists }

\* frame.schema, as {name: str(dtype)}
Schema(frame) == [c \in Range(frame.columns) |-> Dtype(c)]

\* frame[column].to_list()
ColumnValues(frame, column) == [i \in 1..frame.height |-> frame.data[column][i]]

----------------------------------------------------------------------------
(* IndexingStrategy *)

\* Column lists a strategy entry may hold ("tick" is a column of no table).
StrategyColumns == { <<"round_number">>, <<"tick", "winning_side">> }

TableNames == {"players", "rounds"}

\* The keys of a strategy mapping: the wildcard and table names.
MappingKeys == {"*"} \cup TableNames

Mappings == UNION { [keys -> StrategyColumns] : keys \in SUBSET MappingKeys }

\* A _merged in which a table's own entry replaces the wildcard's.
MergedOverride(table_name, mapping) ==
    IF table_name \in DOMAIN mapping THEN mapping[table_name]
    ELSE IF "*" \in DOMAIN mapping THEN mapping["*"] ELSE <<>>

\* IndexingStrategy._merged
Merged(table_name, mapping) ==
    (IF "*" \in DOMAIN mapping THEN mapping["*"] ELSE <<>>)
    \o (IF table_name \in DOMAIN mapping THEN mapping[table_name] ELSE <<>>)

\* IndexingStrategy.offsets_for
OffsetsFor(s, table_name) == Merged(table_name, s.offset_columns)

\* IndexingStrategy.blooms_for
BloomsFor(s, table_name) == Merged(table_name, s.bloom_filter_columns)

----------------------------------------------------------------------------
(* Orders the code does not control: directory listings, glob results and  *)
(* the groups of a group_by come in an order the caller cannot rely on.    *)

\* One listing of the finite set S.
RECURSIVE SeqOf(_)
SeqOf(S) ==
    IF S = {} THEN <<>>
    ELSE LET x == CHOOSE y \in S : TRUE IN <<x>> \o SeqOf(S \ {x})

\* The orders the model lets an uncontrolled enumeration take: a rotation of
\* a listing, read forwards or backwards (every order of up to 3 elements).
Orders == [k : 0..2, rev : BOOLEAN]

Enumerate(S, ord) ==
    IF ord.rev THEN Reverse(Rotate(SeqOf(S), ord.k)) ELSE Rotate(SeqOf(S), ord.k)

----------------------------------------------------------------------------
(* Paths: sequences of names below the processed root. *)

\* The code points of the names the model uses.
NameCodes(name) ==
    CASE name = "m10" -> <<109, 49, 48>>
      [] name = "m2" -> <<109, 50>>
      [] name = "_manifest.json" ->
            <<95, 109, 97, 110, 105, 102, 101, 115, 116, 46, 106, 115, 111, 110>>
      [] name = "manifest.json" ->
            <<109, 97, 110, 105, 102, 101, 115, 116, 46, 106, 115, 111, 110>>
      [] name = "metadata.json" ->
            <<109, 101, 116, 97, 100, 97, 116, 97, 46, 106, 115, 111, 110>>
      [] name = "tables" -> <<116, 97, 98, 108, 101, 115>>
      [] name = "players.parquet" ->
            <<112, 108, 97, 121, 101, 114, 115, 46, 112, 97, 114, 113, 117, 101, 116>>
      [] name = "rounds.parquet" ->
            <<114, 111, 117, 110, 100, 115, 46, 112, 97, 114, 113, 117, 101, 116>>
      [] name = "broken.parquet" ->
            <<98, 114, 111, 107, 101, 110, 46, 112, 97, 114, 113, 117, 101, 116>>
      [] name = "notes.txt" -> <<110, 111, 116, 101, 115, 46, 116, 120, 116>>
      [] name = "m10.dem" -> <<109, 49, 48, 46, 100, 101, 109>>
      [] name = "m2.dem" -> <<109, 50, 46, 100, 101, 109>>
      [] OTHER -> <<>>

\* Path.stem and Path.suffix of the file names the model uses.
Stem(name) ==
    CASE name = "players.parquet" -> "players"
      [] name = "rounds.parquet" -> "rounds"
      [] name = "broken.parquet" -> "broken"
      [] name = "notes.txt" -> "notes"
      [] name = "m1.dem" -> "m1"
      [] name = "m10.dem" -> "m10"
      [] name = "m2.dem" -> "m2"
      [] OTHER -> name

Suffix(name) ==
    CASE name \in {"players.parquet", "rounds.parquet", "broken.parquet"} -> ".parquet"
      [] name = "notes.txt" -> ".txt"
      [] name \in {"m10.dem", "m2.dem"} -> ".dem"
      [] name \in {"_manifest.json", "manifest.json", "metadata.json"} -> ".json"
      [] OTHER -> ""

\* Path.name
PathName(path) == path[Len(path)]

\* The order of two paths of one directory: that of their names.
PathLess(p, q) == LexLess(NameCodes(PathName(p)), NameCodes(PathName(q)))

\* A sorted() that hands the paths back in the order it got them.
UnsortedPaths(paths) == paths

\* sorted() on paths: insertion into an ascending list, one path at a time.
RECURSIVE InsertPath(_, _)
InsertPath(sorted, path) ==
    IF sorted = <<>> THEN <<path>>
    ELSE IF PathLess(path, sorted[1]) THEN <<path>> \o sorted
    ELSE <<sorted[1]>> \o InsertPath(Tail(sorted), path)

RECURSIVE SortedPaths(_)
SortedPaths(paths) ==
    IF paths = <<>> THEN <<>>
    ELSE InsertPath(SortedPaths(SubSeq(paths, 1, Len(paths) - 1)), paths[Len(paths)])

\* Path.resolve(): the absolute path of a path below the processed root.
Resolve(path) == <<"/", "processed">> \o path

----------------------------------------------------------------------------
(* DatasetIndexer._build_offset_index *)

\* Row numbers counted from 1.
RowNumbersFromOne(frame, column, value) ==
    SelectSeq([i \in 1..frame.height |-> i],
              LAMBDA pos : frame.data[column][pos] = value)

\* The zero-based row numbers with_row_index gives the rows holding value.
RowNumbers(frame, column, value) ==
    SelectSeq([i \in 1..frame.height |-> i - 1],
              LAMBDA pos : frame.data[column][pos + 1] = value)

\* indexed.group_by(column).agg(pl.col("row_number")): one record for each
\* distinct value of the column (null included), the groups in the order ord,
\* the row numbers of a group in row order.
GroupBy(frame, column, ord) ==
    LET Groups(keys) ==
            [i \in 1..Len(keys) |->
                [value |-> keys[i], row_number |-> RowNumbers(frame, column, keys[i])]]
    IN  Groups(Enumerate(Range(ColumnValues(frame, column)), ord))

\* An insertion that puts each group at the end, whatever its value.
InsertGroupAppending(sorted, group) == Append(sorted, group)

\* .sort(column): insertion of each group into a list ascending by value.
RECURSIVE InsertGroup(_, _)
InsertGroup(sorted, group) ==
    IF sorted = <<>> THEN <<group>>
    ELSE IF ValueLess(group.value, sorted[1].value) THEN <<group>> \o sorted
    ELSE <<sorted[1]>> \o InsertGroup(Tail(sorted), group)

RECURSIVE SortGroups(_)
SortGroups(groups) ==
    IF groups = <<>> THEN <<>>
    ELSE InsertGroup(SortGroups(SubSeq(groups, 1, Len(groups) - 1)), groups[Len(groups)])

\* The entries of one column with the groups left in group_by's order.
OffsetEntriesUnsorted(frame, column, ord) ==
    LET EntriesOf(grouped) ==
            [i \in 1..Len(grouped) |->
                [value |-> CoerceJson(grouped[i].value),
                 positions |-> grouped[i].row_number]]
    IN  EntriesOf(GroupBy(frame, column, ord))

\* The entries of one column: lines 152-157.
OffsetEntries(frame, column, ord) ==
    LET EntriesOf(grouped) ==
            [i \in 1..Len(grouped) |->
                [value |-> CoerceJson(grouped[i].value),
                 positions |-> grouped[i].row_number]]
    IN  EntriesOf(SortGroups(GroupBy(frame, column, ord)))

\* The columns of the strategy, whether the frame holds them or not.
ConfiguredColumns(configured, frame) == configured

\* The columns of the strategy that the frame holds (lines 145 and 162).
PresentColumns(configured, frame) ==
    SelectSeq(configured, LAMBDA col : col \in Range(frame.columns))

\* polars raises ColumnNotFoundError when asked for a column the frame does
\* not hold (group_by(column), frame[column]).
ColumnsRaise(columns, frame) ==
    IF \E i \in DOMAIN columns : columns[i] \notin Range(frame.columns)
    THEN "ColumnNotFoundError" ELSE ""

\* What the call raises ("" when it returns) and the dict it returns.
BuildOffsetIndex(s, frame, table_name, ord) ==
    LET Index(columns, raised) ==
            IF columns = <<>> THEN [raised |-> "", index |-> [c \in {} |-> <<>>]]
            ELSE IF raised # "" THEN [raised |-> raised, index |-> [c \in {} |-> <<>>]]
            ELSE [raised |-> "",
                  index |-> [c \in Range(columns) |-> OffsetEntries(frame, c, ord)]]
        For(columns) == Index(columns, ColumnsRaise(columns, frame))
    IN  For(PresentColumns(OffsetsFor(s, table_name), frame))

----------------------------------------------------------------------------
(* DatasetIndexer._build_bloom_filters and _create_bloom_filter *)

\* Defaults of _create_bloom_filter.
num_bits == 2048
hash_count == 3

\* blake2b(encoded, digest_size=8, person=bytes([salt])) read as a big-endian
\* integer. The digest itself is a library's; the model keeps what the code
\* relies on, a fixed function of the bytes and the salt, as a polynomial
\* hash seeded by the salt.
RECURSIVE DigestFrom(_, _)
DigestFrom(h, bytes) ==
    IF bytes = <<>> THEN h
    ELSE DigestFrom((h * 33 + bytes[1]) % 65521, Tail(bytes))

Digest(encoded, salt) == DigestFrom(5381 + 977 * salt, encoded)

\* The bit of a digest that leaves the salt out.
BitIndexUnsalted(value, salt, nbits) == Digest(Encoded(value), 0) % nbits

\* The bit one value sets for one salt (lines 183-184).
BitIndex(value, salt, nbits) == Digest(Encoded(value), salt) % nbits

\* The bit array [0] * num_bits is held as the set of the positions that
\* hold 1.
\* for salt in range(hash_count): bitset[index] = 1
RECURSIVE InsertSalts(_, _, _, _)
InsertSalts(bitset, value, salt, nbits) ==
    IF salt >= hash_count THEN bitset
    ELSE InsertSalts(bitset \cup {BitIndex(value, salt, nbits)}, value, salt + 1, nbits)

\* for value in values: ...
RECURSIVE InsertValues(_, _, _)
InsertValues(bitset, values, nbits) ==
    IF values = <<>> THEN bitset
    ELSE InsertValues(InsertSalts(bitset, values[1], 0, nbits), Tail(values), nbits)

\* The elements of a finite set of integers, ascending.
RECURSIVE Ascending(_)
Ascending(S) ==
    IF S = {} THEN <<>>
    ELSE LET m == CHOOSE x \in S : \A y \in S : x <= y
         IN  <<m>> \o Ascending(S \ {m})

\* [idx for idx, bit in enumerate(bitset) if bit]: enumerate walks the bit
\* array from 0 upwards.
SetBits(bitset) == Ascending(bitset)

CreateBloomFilter(values) ==
    LET bitset == InsertValues({}, values, num_bits)
    IN  [num_bits |-> num_bits, hash_count |-> hash_count, set_bits |-> SetBits(bitset)]

\* A to_list() that keeps the nulls of the column.
KeepNulls(values) == values

\* frame[column].drop_nulls().to_list()
DropNulls(values) == SelectSeq(values, LAMBDA value : value.kind # "None")

\* What the call raises ("" when it returns) and the dict it returns.
BuildBloomFilters(s, frame, table_name) ==
    LET Filters(columns, raised) ==
            IF columns = <<>> THEN [raised |-> "", filters |-> [c \in {} |-> <<>>]]
            ELSE IF raised # "" THEN [raised |-> raised, filters |-> [c \in {} |-> <<>>]]
            ELSE [raised |-> "",
                  filters |-> [c \in Range(columns) |->
                                 CreateBloomFilter(DropNulls(ColumnValues(frame, c)))]]
        For(columns) == Filters(columns, ColumnsRaise(columns, frame))
    IN  For(PresentColumns(BloomsFor(s, table_name), frame))

----------------------------------------------------------------------------
(* DatasetIndexer._summarise_table *)

\* pl.col(name).min() / .max(): over the non-null values, None when there is
\* none.
ColumnMin(frame, name) ==
    LET Least(values) ==
            IF values = {} THEN None
            ELSE CHOOSE x \in values : \A y \in values : x.v <= y.v
    IN  Least(Range(DropNulls(ColumnValues(frame, name))))

\* A maximum that gives the first non-null value of the column.
ColumnMaxFirst(frame, name) ==
    LET First(values) == IF values = <<>> THEN None ELSE values[1]
    IN  First(DropNulls(ColumnValues(frame, name)))

ColumnMax(frame, name) ==
    LET Greatest(values) ==
            IF values = {} THEN None
            ELSE CHOOSE x \in values : \A y \in values : x.v >= y.v
    IN  Greatest(Range(DropNulls(ColumnValues(frame, name))))

\* Lines 115-128.
TableStats(s, frame) ==
    LET Stats(numeric_columns) ==
            IF s.numeric_statistics /\ numeric_columns # <<>>
            THEN [k \in {"min", "max"} |->
                    [name \in Range(numeric_columns) |->
                        CoerceJson(IF k = "min" THEN ColumnMin(frame, name)
                                   ELSE ColumnMax(frame, name))]]
            ELSE [k \in {} |-> <<>>]
    IN  Stats(SelectSeq(frame.columns, LAMBDA name : IsNumeric(Dtype(name))))

NoSummary == [table_name |-> ""]

\* A summarisation that gives an unreadable table an empty frame instead of
\* letting the read raise.
SummariseTableLenient(s, table_path, file, ord) ==
    [raised |-> "",
     summary |->
        [table_name |-> Stem(PathName(table_path)),
         path |-> Resolve(table_path),
         file_size_bytes |-> file.st_size,
         row_count |-> IF file.parquet THEN file.frame.height ELSE 0,
         schema |-> IF file.parquet THEN Schema(file.frame) ELSE [c \in {} |-> ""],
         stats |-> [k \in {} |-> <<>>],
         offset_index |-> [c \in {} |-> <<>>],
         bloom_filters |-> [c \in {} |-> <<>>]]]

\* file is what the table path holds: [frame, st_size, parquet], parquet
\* telling whether the bytes are a readable parquet file. What the call
\* raises ("" when it returns) and the summary it returns.
SummariseTable(s, table_path, file, ord) ==
    LET Summary(table_name, frame, offset_index, bloom_filters) ==
            IF offset_index.raised # ""
            THEN [raised |-> offset_index.raised, summary |-> NoSummary]
            ELSE IF bloom_filters.raised # ""
            THEN [raised |-> bloom_filters.raised, summary |-> NoSummary]
            ELSE [raised |-> "",
                  summary |->
                    [table_name |-> table_name,
                     path |-> Resolve(table_path),
                     file_size_bytes |-> file.st_size,
                     row_count |-> frame.height,
                     schema |-> Schema(frame),
                     stats |-> TableStats(s, frame),
                     offset_index |-> offset_index.index,
                     bloom_filters |-> bloom_filters.filters]]
        Named(table_name) ==
            Summary(table_name, file.frame,
                    BuildOffsetIndex(s, file.frame, table_name, ord),
                    BuildBloomFilters(s, file.frame, table_name))
    IN  IF ~file.parquet THEN [raised |-> "ComputeError", summary |-> NoSummary]
        ELSE Named(Stem(PathName(table_path)))

----------------------------------------------------------------------------
(* The processed tree. *)

\* Names a demo directory may take: the order of paths is that of their
\* names' code points, "m10" < "m2".
DemoNames == {"m10", "m2"}

\* Names of the files a tables directory may hold.
TableFileNames == {"players.parquet", "rounds.parquet", "broken.parquet", "notes.txt"}

\* The content written for a table of the tree: the frame and the size of
\* its file. broken.parquet holds bytes that are no parquet file.
TreeFrame(name) ==
    IF Stem(name) = "rounds"
    THEN [columns |-> <<"round_number", "winning_side">>, height |-> 2,
          data |-> [c \in {"round_number", "winning_side"} |->
                      IF c = "round_number" THEN <<PyInt(12), PyInt(1)>>
                      ELSE <<PyStr(1), PyStr(2)>>]]
    ELSE [columns |-> <<"round_number">>, height |-> 1,
          data |-> [c \in {"round_number"} |-> <<PyInt(1)>>]]

\* The size of the file write_parquet leaves for a frame (a stand-in: the
\* indexer only reports st_size).
ParquetSize(frame) == 64 + 8 * frame.height * Len(frame.columns)

TreeFile(name) ==
    [frame |-> TreeFrame(name), st_size |-> ParquetSize(TreeFrame(name)),
     parquet |-> name # "broken.parquet"]

\* <demo>/tables: absent, a plain file, or a directory holding files.
TablesOptions ==
    { [kind |-> "absent", files |-> {}], [kind |-> "file", files |-> {}] }
    \cup { [kind |-> "dir", files |-> fs] : fs \in SUBSET TableFileNames }

NoTables == [kind |-> "absent", files |-> {}]

AbsentEntry == [kind |-> "absent", tables |-> NoTables, metadata |-> FALSE]

\* What <root>/<name> may be: absent, a plain file, or a demo directory.
Entries ==
    { AbsentEntry, [kind |-> "file", tables |-> NoTables, metadata |-> FALSE] }
    \cup { [kind |-> "dir", tables |-> t, metadata |-> m] :
             t \in TablesOptions, m \in BOOLEAN }

\* The processed root: a directory of entries, a plain file, or missing.
MissingRoot == [kind |-> "missing", entries |-> [d \in DemoNames |-> AbsentEntry]]
FileRoot == [kind |-> "file", entries |-> [d \in DemoNames |-> AbsentEntry]]

Roots ==
    { MissingRoot, FileRoot }
    \cup { [kind |-> "dir", entries |-> e] : e \in [DemoNames -> Entries] }

----------------------------------------------------------------------------
(* ProcessedLayout *)

\* The attributes the class defines (demos.py lines 47-76).
ProcessedLayoutAttributes ==
    { "root", "tables_dirname", "metadata_filename", "manifest_filename",
      "ensure_root", "demo_dir", "tables_dir", "table_path", "metadata_path",
      "manifest_path" }

tables_dirname == "tables"
metadata_filename == "metadata.json"
manifest_filename == "manifest.json"

\* Path.mkdir(parents=True, exist_ok=True) on <root>/<demo_stem>: creates the
\* root and the directory when absent, leaves a directory as it is, and
\* raises FileExistsError on a plain file.
MkdirDemo(tree, demo_stem) ==
    IF tree.kind = "file"
    THEN [tree |-> tree, raised |-> "NotADirectoryError"]
    ELSE IF tree.kind = "dir" /\ tree.entries[demo_stem].kind = "file"
    THEN [tree |-> tree, raised |-> "FileExistsError"]
    ELSE IF tree.kind = "dir" /\ tree.entries[demo_stem].kind = "dir"
    THEN [tree |-> tree, raised |-> ""]
    ELSE [tree |-> [kind |-> "dir",
                    entries |-> [tree.entries EXCEPT ![demo_stem] =
                        [kind |-> "dir", tables |-> NoTables, metadata |-> FALSE]]],
          raised |-> ""]

\* ProcessedLayout.demo_dir: the path and the tree the call leaves.
DemoDir(tree, demo_stem) ==
    LET Made(made) == [path |-> <<demo_stem>>, tree |-> made.tree, raised |-> made.raised]
    IN  Made(MkdirDemo(tree, demo_stem))

\* A metadata_path that also creates the file it names.
MetadataPathTouching(tree, demo_stem) ==
    LET Below(dir) ==
            [path |-> dir.path \o <<metadata_filename>>,
             tree |-> IF dir.raised # "" THEN dir.tree
                      ELSE [dir.tree EXCEPT !.entries[demo_stem].metadata = TRUE],
             raised |-> dir.raised]
    IN  Below(DemoDir(tree, demo_stem))

\* ProcessedLayout.metadata_path
MetadataPath(tree, demo_stem) ==
    LET Below(dir) ==
            [path |-> dir.path \o <<metadata_filename>>, tree |-> dir.tree,
             raised |-> dir.raised]
    IN  Below(DemoDir(tree, demo_stem))

\* Path.mkdir(parents=True, exist_ok=True) on <root>/<demo_stem>/tables, once
\* <root>/<demo_stem> is a directory, when the call recreates the directory
\* instead of keeping an existing one.
MkdirTablesAfresh(tree, demo_stem) ==
    IF tree.entries[demo_stem].tables.kind = "file"
    THEN [tree |-> tree, raised |-> "FileExistsError"]
    ELSE [tree |-> [tree EXCEPT !.entries[demo_stem].tables =
                        [kind |-> "dir", files |-> {}]],
          raised |-> ""]

\* Path.mkdir(parents=True, exist_ok=True) on <root>/<demo_stem>/tables, once
\* <root>/<demo_stem> is a directory.
MkdirTables(tree, demo_stem) ==
    IF tree.entries[demo_stem].tables.kind = "file"
    THEN [tree |-> tree, raised |-> "FileExistsError"]
    ELSE IF tree.entries[demo_stem].tables.kind = "dir"
    THEN [tree |-> tree, raised |-> ""]
    ELSE [tree |-> [tree EXCEPT !.entries[demo_stem].tables =
                        [kind |-> "dir", files |-> {}]],
          raised |-> ""]

\* A tables_dir that computes the path without the mkdir of line 66.
TablesDirUncreated(tree, demo_stem) ==
    LET Below(dir) ==
            [path |-> dir.path \o <<tables_dirname>>, tree |-> dir.tree,
             raised |-> dir.raised]
    IN  Below(DemoDir(tree, demo_stem))

\* ProcessedLayout.tables_dir
TablesDir(tree, demo_stem) ==
    LET Made(dir, made) ==
            [path |-> dir.path \o <<tables_dirname>>, tree |-> made.tree,
             raised |-> made.raised]
        Below(dir) ==
            IF dir.raised # ""
            THEN [path |-> <<>>, tree |-> dir.tree, raised |-> dir.raised]
            ELSE Made(dir, MkdirTables(dir.tree, demo_stem))
    IN  Below(DemoDir(tree, demo_stem))

\* f"{table_name}.parquet"
ParquetName(table_name) ==
    CHOOSE f \in TableFileNames : Stem(f) = table_name /\ Suffix(f) = ".parquet"

\* ProcessedLayout.table_path
LayoutTablePath(tree, demo_stem, table_name) ==
    LET Below(dir) ==
            [path |-> IF dir.raised # "" THEN <<>>
                      ELSE dir.path \o <<ParquetName(table_name)>>,
             tree |-> dir.tree, raised |-> dir.raised]
    IN  Below(TablesDir(tree, demo_stem))

\* ProcessedLayout.ensure_root: root.mkdir(parents=True, exist_ok=True)
EnsureRoot(tree) ==
    IF tree.kind = "file" THEN [tree |-> tree, raised |-> "FileExistsError"]
    ELSE [tree |-> [tree EXCEPT !.kind = "dir"], raised |-> ""]

\* ProcessedLayout.manifest_path
ManifestPath == <<manifest_filename>>

\* An exists() that holds of every path.
MetadataAlwaysExists(tree, demo_stem) == TRUE

\* Path.exists() of <root>/<demo_stem>/metadata.json
MetadataExists(tree, demo_stem) ==
    tree.kind = "dir" /\ tree.entries[demo_stem].kind = "dir"
    /\ tree.entries[demo_stem].metadata

----------------------------------------------------------------------------
(* DatasetIndexer.build_manifest *)

\* root.iterdir(): the paths of the entries of the root, in the order ord.
\* rootfiles are the names of the plain files stored at the root.
IterDir(tree, rootfiles, ord) ==
    LET Paths(listed) == [i \in 1..Len(listed) |-> <<listed[i]>>]
    IN  Paths(Enumerate({d \in DemoNames : tree.entries[d].kind # "absent"}
                            \cup rootfiles, ord))

\* demo_dir.is_dir()
IsDir(tree, path) ==
    PathName(path) \in DemoNames /\ tree.entries[PathName(path)].kind = "dir"

\* tables_dir.glob("*.parquet"): the matching paths, in the order ord.
GlobParquet(tree, demo_dir, ord) ==
    LET Paths(listed) ==
            [i \in 1..Len(listed) |-> demo_dir \o <<tables_dirname, listed[i]>>]
    IN  Paths(Enumerate({f \in tree.entries[PathName(demo_dir)].tables.files :
                            Suffix(f) = ".parquet"}, ord))

\* Lines 74-77: one summary for each table path, in sorted order; the first
\* summarisation that raises ends the comprehension.
SummariseTables(s, tree, demo_dir, ord) ==
    LET Collected(done, failed) ==
            IF failed # {}
            THEN [raised |-> done[CHOOSE i \in failed : \A j \in failed : i <= j].raised,
                  tables |-> <<>>]
            ELSE [raised |-> "", tables |-> [i \in DOMAIN done |-> done[i].summary]]
        Done(done) == Collected(done, {i \in DOMAIN done : done[i].raised # ""})
        Over(paths) ==
            Done([i \in 1..Len(paths) |->
                    SummariseTable(s, paths[i], TreeFile(PathName(paths[i])), ord)])
    IN  Over(SortedPaths(GlobParquet(tree, demo_dir, ord)))

\* The body of the loop without the "if not tables: continue" of line 79.
ScanEntryKeepingEmpty(s, tree, demo_dir, ord) ==
    IF ~IsDir(tree, demo_dir) THEN [raised |-> "", tree |-> tree, datasets |-> <<>>]
    ELSE IF tree.entries[PathName(demo_dir)].tables.kind = "absent"
    THEN [raised |-> "", tree |-> tree, datasets |-> <<>>]
    ELSE LET Record(summarised, metadata_file) ==
                 IF summarised.raised # ""
                 THEN [raised |-> summarised.raised, tree |-> tree, datasets |-> <<>>]
                 ELSE [raised |-> metadata_file.raised,
                       tree |-> metadata_file.tree,
                       datasets |->
                         << [demo_stem |-> PathName(demo_dir),
                             demo_dir |-> Resolve(demo_dir),
                             metadata_file |->
                                 IF MetadataExists(metadata_file.tree, PathName(demo_dir))
                                 THEN Resolve(metadata_file.path) ELSE <<>>,
                             tables |-> summarised.tables] >>]
         IN  Record(SummariseTables(s, tree, demo_dir, ord),
                    MetadataPath(tree, PathName(demo_dir)))

\* The body of the loop for one entry of the root (lines 67-90): the tree the
\* step leaves and the records it appends.
ScanEntry(s, tree, demo_dir, ord) ==
    IF ~IsDir(tree, demo_dir) THEN [raised |-> "", tree |-> tree, datasets |-> <<>>]
    ELSE IF tree.entries[PathName(demo_dir)].tables.kind = "absent"
    THEN [raised |-> "", tree |-> tree, datasets |-> <<>>]
    ELSE LET Record(summarised, metadata_file) ==
                 IF summarised.raised # ""
                 THEN [raised |-> summarised.raised, tree |-> tree, datasets |-> <<>>]
                 ELSE IF summarised.tables = <<>>
                 THEN [raised |-> "", tree |-> tree, datasets |-> <<>>]
                 ELSE [raised |-> metadata_file.raised,
                       tree |-> metadata_file.tree,
                       datasets |->
                         << [demo_stem |-> PathName(demo_dir),
                             demo_dir |-> Resolve(demo_dir),
                             metadata_file |->
                                 IF MetadataExists(metadata_file.tree, PathName(demo_dir))
                                 THEN Resolve(metadata_file.path) ELSE <<>>,
                             tables |-> summarised.tables] >>]
         IN  Record(SummariseTables(s, tree, demo_dir, ord),
                    MetadataPath(tree, PathName(demo_dir)))

\* The loop of line 66 over the entries still to visit.
RECURSIVE ScanEntries(_, _, _, _, _)
ScanEntries(s, tree, paths, datasets, ord) ==
    IF paths = <<>> THEN [raised |-> "", tree |-> tree, datasets |-> datasets]
    ELSE LET After(step) ==
                 IF step.raised # ""
                 THEN [raised |-> step.raised, tree |-> step.tree, datasets |-> datasets]
                 ELSE ScanEntries(s, step.tree, Tail(paths), datasets \o step.datasets, ord)
         IN  After(ScanEntry(s, tree, paths[1], ord))

NoManifest == [generated_at |-> 0, dataset_count |-> 0, datasets |-> <<>>]

\* build_manifest: what it raises ("" when it returns), the tree it leaves
\* and the manifest it returns. iterdir raises on a root that is no directory.
BuildManifest(s, tree, rootfiles, ord, now) ==
    IF tree.kind # "dir"
    THEN [raised |-> IF tree.kind = "missing" THEN "FileNotFoundError"
                     ELSE "NotADirectoryError",
          tree |-> tree, manifest |-> NoManifest]
    ELSE LET Manifest(scan) ==
                 IF scan.raised # ""
                 THEN [raised |-> scan.raised, tree |-> scan.tree, manifest |-> NoManifest]
                 ELSE [raised |-> "", tree |-> scan.tree,
                       manifest |-> [generated_at |-> now,
                                     dataset_count |-> Len(scan.datasets),
                                     datasets |-> scan.datasets]]
         IN  Manifest(ScanEntries(s, tree, SortedPaths(IterDir(tree, rootfiles, ord)),
                                  <<>>, ord))

----------------------------------------------------------------------------
(* DatasetIndexer.write_manifest *)

\* json.dumps(manifest, indent=2, default=_coerce_json) as the document a
\* reader parses back: the manifest holds only dicts with string keys, lists,
\* strings, integers and None, which JSON carries unchanged.
JsonDumps(manifest) == [kind |-> "json", doc |-> manifest]

\* What <root>/_manifest.json may hold before the indexer runs: nothing,
\* bytes that are no JSON, or an earlier manifest.
StaleManifest == [generated_at |-> 0, dataset_count |-> 1, datasets |-> <<>>]

IndexFiles ==
    { [kind |-> "absent", doc |-> NoManifest],
      [kind |-> "corrupt", doc |-> NoManifest],
      [kind |-> "json", doc |-> StaleManifest] }

\* write_manifest: what it raises, the tree and the index file it leaves and
\* the path it returns. Line 103 looks up global_manifest_path on the layout.
WriteManifest(s, tree, file, rootfiles, ord, now) ==
    LET Written(built) ==
            IF built.raised # ""
            THEN [raised |-> built.raised, tree |-> built.tree, file |-> file,
                  path |-> <<>>]
            ELSE IF "global_manifest_path" \notin ProcessedLayoutAttributes
            THEN [raised |-> "AttributeError", tree |-> built.tree, file |-> file,
                  path |-> <<>>]
            ELSE [raised |-> "", tree |-> built.tree, file |-> JsonDumps(built.manifest),
                  path |-> <<"_manifest.json">>]
    IN  Written(BuildManifest(s, tree, rootfiles, ord, now))

----------------------------------------------------------------------------
(* DemoIngestor *)

\* The names a demo file under source_root may take; a demo path is the
\* sequence holding its name.
DemoFiles == {"m10.dem", "m2.dem"}

\* list_demo_files: sorted(rglob("*.dem")), the files coming in the order ord.
ListDemoFiles(files, ord) ==
    LET Paths(listed) == [i \in 1..Len(listed) |-> <<listed[i]>>]
    IN  SortedPaths(Paths(Enumerate({f \in files : Suffix(f) = ".dem"}, ord)))

\* "paths or self.list_demo_files()" (line 116): input is [kind, paths], of
\* kind "None" or "list".
PathsOr(input, files, ord) ==
    IF input.kind = "None" \/ input.paths = <<>> THEN ListDemoFiles(files, ord)
    ELSE input.paths

\* frame.write_parquet(path)
WriteParquet(tree, demo_stem, file) ==
    [tree EXCEPT !.entries[demo_stem].tables.files = @ \cup {file}]

\* The loop of lines 176-180 over the tables still to write.
RECURSIVE WriteTables(_, _, _, _)
WriteTables(tree, demo_stem, names, written_tables) ==
    IF names = <<>>
    THEN [raised |-> "", tree |-> tree, table_names |-> written_tables]
    ELSE LET Wrote(at) ==
                 IF at.raised # ""
                 THEN [raised |-> at.raised, tree |-> at.tree,
                       table_names |-> written_tables]
                 ELSE WriteTables(WriteParquet(at.tree, demo_stem, PathName(at.path)),
                                  demo_stem, Tail(names),
                                  Append(written_tables, names[1]))
         IN  Wrote(LayoutTablePath(tree, demo_stem, names[1]))

\* _persist_parse_result: parse_result.tables are the keys whose value has
\* to_dict, in the order of the dict.
PersistParseResult(tree, demo_stem, parse_result) ==
    WriteTables(tree, demo_stem, parse_result.tables, <<>>)

\* _write_metadata
WriteMetadata(tree, demo_stem) ==
    LET Wrote(at) ==
            IF at.raised # "" THEN [raised |-> at.raised, tree |-> at.tree]
            ELSE [raised |-> "",
                  tree |-> [at.tree EXCEPT !.entries[demo_stem].metadata = TRUE]]
    IN  Wrote(MetadataPath(tree, demo_stem))

\* Lines 211-222: the entry of a demo.
ManifestEntry(demo_path, parse_result, table_names, now) ==
    [demo_name |-> PathName(demo_path),
     demo_stem |-> Stem(PathName(demo_path)),
     source |-> <<"/", "raw">> \o demo_path,
     output_dir |-> Resolve(<<Stem(PathName(demo_path))>>),
     tables_dir |-> Resolve(<<Stem(PathName(demo_path)), tables_dirname>>),
     metadata_file |-> Resolve(<<Stem(PathName(demo_path)), metadata_filename>>),
     total_rounds |-> parse_result.total_rounds,
     parser |-> "awpy",
     tables |-> table_names,
     processed_at |-> now]

\* The layout calls of lines 215-217: demo_dir, tables_dir, metadata_path.
EntryPaths(tree, demo_stem) ==
    LET Third(at) == IF at.raised # "" THEN at ELSE MetadataPath(at.tree, demo_stem)
        Second(at) == IF at.raised # "" THEN at ELSE Third(TablesDir(at.tree, demo_stem))
    IN  Second(DemoDir(tree, demo_stem))

\* A read of the manifest that takes a file it cannot parse for an empty
\* one.
LoadEntriesLenient(file) == [raised |-> "", entries |-> file.entries]

\* Lines 225-230: the entries of the manifest file; a file that is no JSON
\* raises ValueError.
LoadEntries(file) ==
    IF file.kind = "corrupt" THEN [raised |-> "ValueError", entries |-> <<>>]
    ELSE [raised |-> "", entries |-> file.entries]

\* A filter that keeps every entry.
EveryEntry(entries, demo_stem) == entries

\* Line 233: the entries of the other demos.
OtherEntries(entries, demo_stem) ==
    SelectSeq(entries, LAMBDA entry : entry.demo_stem # demo_stem)

\* _update_manifest: what it raises, the tree and the manifest file it leaves.
UpdateManifest(tree, file, demo_path, parse_result, table_names, now) ==
    LET Written(at, current) ==
            IF current.raised # ""
            THEN [raised |-> current.raised, tree |-> at.tree, file |-> file]
            ELSE [raised |-> "", tree |-> at.tree,
                  file |-> [kind |-> "json",
                            entries |->
                                Append(OtherEntries(current.entries,
                                                    Stem(PathName(demo_path))),
                                       ManifestEntry(demo_path, parse_result,
                                                     table_names, now))]]
        Entered(at) ==
            IF at.raised # ""
            THEN [raised |-> at.raised, tree |-> at.tree, file |-> file]
            ELSE Written(at, LoadEntries(file))
    IN  Entered(EntryPaths(tree, Stem(PathName(demo_path))))

\* _process_single_demo: outcome is what DemoParser(...).parse() does, raise
\* or return a parse result.
ProcessSingleDemo(tree, file, files, parser, demo_path, outcome, now) ==
    LET Recorded(persisted, written) ==
            IF written.raised # ""
            THEN [raised |-> written.raised, tree |-> written.tree, file |-> file]
            ELSE UpdateManifest(written.tree, file, demo_path, outcome.parse_result,
                                persisted.table_names, now)
        Persisted(persisted) ==
            IF persisted.raised # ""
            THEN [raised |-> persisted.raised, tree |-> persisted.tree, file |-> file]
            ELSE Recorded(persisted,
                          WriteMetadata(persisted.tree, Stem(PathName(demo_path))))
        Parsed(dir) ==
            IF dir.raised # ""
            THEN [raised |-> dir.raised, tree |-> dir.tree, file |-> file]
            ELSE IF outcome.raised # ""
            THEN [raised |-> "RuntimeError", tree |-> dir.tree, file |-> file]
            ELSE Persisted(PersistParseResult(dir.tree, Stem(PathName(demo_path)),
                                              outcome.parse_result))
    IN  IF PathName(demo_path) \notin files
        THEN [raised |-> "FileNotFoundError", tree |-> tree, file |-> file]
        ELSE IF parser = "None"
        THEN [raised |-> "ModuleNotFoundError", tree |-> tree, file |-> file]
        ELSE Parsed(DemoDir(tree, Stem(PathName(demo_path))))

\* A loop that gives up at the first path that fails.
RECURSIVE IngestLoopStopping(_, _, _, _, _, _)
IngestLoopStopping(env, tree, file, todo, attempted, failures) ==
    IF todo = <<>> \/ failures # <<>>
    THEN [tree |-> tree, file |-> file, attempted |-> attempted, failures |-> failures]
    ELSE LET Caught(r) ==
                 IngestLoopStopping(env, r.tree, r.file, Tail(todo),
                                    Append(attempted, todo[1]),
                                    IF r.raised # ""
                                    THEN Append(failures,
                                                [path |-> todo[1], exc |-> r.raised])
                                    ELSE failures)
         IN  Caught(ProcessSingleDemo(tree, file, env.files, env.parser, todo[1],
                                      env.outcomes[PathName(todo[1])], env.now))

\* The loop of lines 116-121 over the paths still to process; env holds the
\* source files, the parser, what the parser does on each file and the time.
RECURSIVE IngestLoop(_, _, _, _, _, _)
IngestLoop(env, tree, file, todo, attempted, failures) ==
    IF todo = <<>>
    THEN [tree |-> tree, file |-> file, attempted |-> attempted, failures |-> failures]
    ELSE LET Caught(r) ==
                 IngestLoop(env, r.tree, r.file, Tail(todo), Append(attempted, todo[1]),
                            IF r.raised # ""
                            THEN Append(failures, [path |-> todo[1], exc |-> r.raised])
                            ELSE failures)
         IN  Caught(ProcessSingleDemo(tree, file, env.files, env.parser, todo[1],
                                      env.outcomes[PathName(todo[1])], env.now))

\* ingest: what it raises, the names its error message lists, the tree and
\* the manifest file it leaves, the paths it handed to _process_single_demo
\* and the failures it collected.
Ingest(env, tree, file, input, ord) ==
    LET Finished(done) ==
            [raised |-> IF done.failures # <<>> THEN "RuntimeError" ELSE "",
             names |-> [i \in DOMAIN done.failures |-> PathName(done.failures[i].path)],
             tree |-> done.tree, file |-> done.file,
             attempted |-> done.attempted, failures |-> done.failures]
    IN  Finished(IngestLoop(env, tree, file, PathsOr(input, env.files, ord),
                            <<>>, <<>>))

----------------------------------------------------------------------------
(* The indexer on a processed tree. *)

\* The strategy of the indexer of the tree: that of the repository's test.
TreeStrategy ==
    [offset_columns |-> [k \in {"rounds"} |-> <<"round_number">>],
     bloom_filter_columns |-> [k \in {"rounds"} |-> <<"winning_side">>],
     numeric_statistics |-> TRUE]

NoRet == [kind |-> "none", raised |-> "", manifest |-> NoManifest, path |-> <<>>,
          summary |-> NoSummary]

NoTable ==
    [path |-> <<>>,
     file |-> [frame |-> TreeFrame("players.parquet"), st_size |-> 0, parquet |-> TRUE]]

\* The names of the plain files stored at the root.
RootFiles ==
    (IF indexFile.kind = "absent" THEN {} ELSE {"_manifest.json"})
    \cup (IF manifestFile.kind = "absent" THEN {} ELSE {manifest_filename})

\* No ingestion has run and none is set up: no ingestion manifest, no demo
\* file.
NoIngestion ==
    /\ manifestFile = [kind |-> "absent", entries |-> <<>>]
    /\ sourceFiles = {}
    /\ DemoParser = "awpy"

Init ==
    /\ root \in Roots
    /\ indexFile \in IndexFiles
    /\ strategy = TreeStrategy
    /\ table = NoTable
    /\ op = [name |-> "init", prev |-> NoRet]
    /\ ret = NoRet
    /\ clock = 1
    /\ metrics = NoMetrics
    /\ NoIngestion

\* indexer.build_manifest()
BuildManifestCall ==
    /\ clock <= MaxCalls
    /\ \E ord \in Orders :
         \E r \in {BuildManifest(strategy, root, RootFiles, ord, clock)} :
             /\ root' = r.tree
             /\ ret' = [NoRet EXCEPT !.kind = IF r.raised = "" THEN "manifest" ELSE "raise",
                                     !.raised = r.raised,
                                     !.manifest = r.manifest]
    /\ op' = [name |-> "build_manifest", prev |-> ret]
    /\ clock' = clock + 1
    /\ UNCHANGED <<indexFile, strategy, table, manifestFile, sourceFiles, DemoParser, metrics>>

\* indexer.write_manifest()
WriteManifestCall ==
    /\ clock <= MaxCalls
    /\ \E ord \in Orders :
         \E r \in {WriteManifest(strategy, root, indexFile, RootFiles, ord, clock)} :
             /\ root' = r.tree
             /\ indexFile' = r.file
             /\ ret' = [NoRet EXCEPT !.kind = IF r.raised = "" THEN "path" ELSE "raise",
                                     !.raised = r.raised,
                                     !.path = r.path]
    /\ op' = [name |-> "write_manifest", prev |-> ret]
    /\ clock' = clock + 1
    /\ UNCHANGED <<strategy, table, manifestFile, sourceFiles, DemoParser, metrics>>

Next == BuildManifestCall \/ WriteManifestCall

Spec == Init /\ [][Next]_vars

----------------------------------------------------------------------------
(* The summarisation of one table, on every table and strategy within the  *)
(* bounds.                                                                 *)

NoMapping == [k \in {} |-> <<>>]

\* The strategies handed to the indexer: each mapping alone, both the same,
\* and the statistics switched off.
TableStrategies ==
    { [offset_columns |-> m, bloom_filter_columns |-> NoMapping,
       numeric_statistics |-> TRUE] : m \in Mappings }
    \cup { [offset_columns |-> NoMapping, bloom_filter_columns |-> m,
            numeric_statistics |-> TRUE] : m \in Mappings }
    \cup { [offset_columns |-> m, bloom_filter_columns |-> m,
            numeric_statistics |-> FALSE] : m \in Mappings }

\* The table file summarised: <root>/m2/tables/rounds.parquet, so that an
\* entry keyed "players" is another table's.
TablePath == <<"m2", tables_dirname, "rounds.parquet">>

InitTable ==
    /\ root = MissingRoot
    /\ indexFile = [kind |-> "absent", doc |-> NoManifest]
    /\ strategy \in TableStrategies
    /\ table \in { [path |-> TablePath,
                    file |-> [frame |-> f, st_size |-> ParquetSize(f),
                              parquet |-> TRUE]] : f \in Frames }
    /\ op = [name |-> "init", prev |-> NoRet]
    /\ ret = NoRet
    /\ clock = 1
    /\ metrics = NoMetrics
    /\ NoIngestion

\* indexer._summarise_table(table_path)
SummariseTableCall ==
    /\ op.name = "init"
    /\ \E ord \in Orders :
         \E r \in {SummariseTable(strategy, table.path, table.file, ord)} :
             ret' = [NoRet EXCEPT !.kind = IF r.raised = "" THEN "summary" ELSE "raise",
                                  !.raised = r.raised,
                                  !.summary = r.summary]
    /\ op' = [name |-> "_summarise_table", prev |-> ret]
    /\ UNCHANGED <<root, indexFile, strategy, table, clock,
                   manifestFile, sourceFiles, DemoParser, metrics>>

NextTable == SummariseTableCall

SpecTable == InitTable /\ [][NextTable]_vars

----------------------------------------------------------------------------
(* The layout and the construction of an indexer, on every processed root   *)
(* within the bounds.                                                      *)

\* DatasetIndexer.__init__: stores the layout and the strategy.
DatasetIndexerInit(tree) == [tree |-> tree, raised |-> ""]

InitLayout ==
    /\ root \in Roots
    /\ indexFile = [kind |-> "absent", doc |-> NoManifest]
    /\ strategy = TreeStrategy
    /\ table = NoTable
    /\ op = [name |-> "init", prev |-> NoRet]
    /\ ret = NoRet
    /\ clock = 1
    /\ metrics = NoMetrics
    /\ NoIngestion

\* The outcome of a layout call: the path it returns or what it raises.
LayoutRet(r) ==
    [NoRet EXCEPT !.kind = IF r.raised = "" THEN "path" ELSE "raise",
                  !.raised = r.raised,
                  !.path = IF r.raised = "" THEN r.path ELSE <<>>]

\* DatasetIndexer(processed_root)
DatasetIndexerCall ==
    /\ clock <= MaxCalls
    /\ \E r \in {DatasetIndexerInit(root)} :
         /\ root' = r.tree
         /\ ret' = [NoRet EXCEPT !.kind = IF r.raised = "" THEN "indexer" ELSE "raise",
                                 !.raised = r.raised]
    /\ op' = [name |-> "DatasetIndexer", prev |-> ret, before |-> root]
    /\ clock' = clock + 1
    /\ UNCHANGED <<indexFile, strategy, table, manifestFile, sourceFiles, DemoParser, metrics>>

\* layout.ensure_root()
EnsureRootCall ==
    /\ clock <= MaxCalls
    /\ \E r \in {EnsureRoot(root)} :
         /\ root' = r.tree
         /\ ret' = [NoRet EXCEPT !.kind = IF r.raised = "" THEN "none" ELSE "raise",
                                 !.raised = r.raised]
    /\ op' = [name |-> "ensure_root", prev |-> ret, before |-> root]
    /\ clock' = clock + 1
    /\ UNCHANGED <<indexFile, strategy, table, manifestFile, sourceFiles, DemoParser, metrics>>

\* layout.demo_dir(demo_stem)
DemoDirCall ==
    /\ clock <= MaxCalls
    /\ \E demo_stem \in DemoNames :
         \E r \in {DemoDir(root, demo_stem)} :
             /\ root' = r.tree
             /\ ret' = LayoutRet(r)
             /\ op' = [name |-> "demo_dir", prev |-> ret, before |-> root,
                       demo_stem |-> demo_stem]
    /\ clock' = clock + 1
    /\ UNCHANGED <<indexFile, strategy, table, manifestFile, sourceFiles, DemoParser, metrics>>

\* layout.tables_dir(demo_stem)
TablesDirCall ==
    /\ clock <= MaxCalls
    /\ \E demo_stem \in DemoNames :
         \E r \in {TablesDir(root, demo_stem)} :
             /\ root' = r.tree
             /\ ret' = LayoutRet(r)
             /\ op' = [name |-> "tables_dir", prev |-> ret, before |-> root,
                       demo_stem |-> demo_stem]
    /\ clock' = clock + 1
    /\ UNCHANGED <<indexFile, strategy, table, manifestFile, sourceFiles, DemoParser, metrics>>

\* layout.table_path(demo_stem, table_name)
TablePathCall ==
    /\ clock <= MaxCalls
    /\ \E demo_stem \in DemoNames, table_name \in TableNames :
         \E r \in {LayoutTablePath(root, demo_stem, table_name)} :
             /\ root' = r.tree
             /\ ret' = LayoutRet(r)
             /\ op' = [name |-> "table_path", prev |-> ret, before |-> root,
                       demo_stem |-> demo_stem, table_name |-> table_name]
    /\ clock' = clock + 1
    /\ UNCHANGED <<indexFile, strategy, table, manifestFile, sourceFiles, DemoParser, metrics>>

\* layout.metadata_path(demo_stem)
MetadataPathCall ==
    /\ clock <= MaxCalls
    /\ \E demo_stem \in DemoNames :
         \E r \in {MetadataPath(root, demo_stem)} :
             /\ root' = r.tree
             /\ ret' = LayoutRet(r)
             /\ op' = [name |-> "metadata_path", prev |-> ret, before |-> root,
                       demo_stem |-> demo_stem]
    /\ clock' = clock + 1
    /\ UNCHANGED <<indexFile, strategy, table, manifestFile, sourceFiles, DemoParser, metrics>>

NextLayout ==
    \/ DatasetIndexerCall
    \/ EnsureRootCall
    \/ DemoDirCall
    \/ TablesDirCall
    \/ TablePathCall
    \/ MetadataPathCall

SpecLayout == InitLayout /\ [][NextLayout]_vars

----------------------------------------------------------------------------
(* The ingestor on a processed root: ingest, and _update_manifest called   *)
(* on its own as the repository's test does.                               *)

\* What the parser returns: total_rounds and the tables, in dict order.
ParseResults ==
    { [total_rounds |-> n, tables |-> t] :
        n \in {24, 30}, t \in { <<>>, <<"rounds">>, <<"players", "rounds">> } }

NoParse == [total_rounds |-> 0, tables |-> <<>>]

\* What parsing one demo file does within an ingest: raise, or return.
IngestOutcomes ==
    { [raised |-> "ParserError", parse_result |-> NoParse] }
    \cup { [raised |-> "", parse_result |-> p] : p \in {q \in ParseResults : q.total_rounds = 24} }

\* The sequences over S of length at most n.
SeqsUpTo(S, n) == UNION { [1..k -> S] : k \in 0..n }

\* What ingest is called with: None, or a list of demo paths (which may
\* repeat, and may name files that do not exist).
IngestInputs ==
    { [kind |-> "None", paths |-> <<>>] }
    \cup { [kind |-> "list", paths |-> ps] :
             ps \in SeqsUpTo({ <<f>> : f \in DemoFiles }, MaxPaths) }

\* The orders rglob may list the demo files in.
ListingOrders == {o \in Orders : o.k = 0}

\* What <root>/<name> may be when the ingestor starts.
IngestEntries ==
    { AbsentEntry,
      [kind |-> "file", tables |-> NoTables, metadata |-> FALSE],
      [kind |-> "dir", tables |-> [kind |-> "file", files |-> {}], metadata |-> FALSE],
      [kind |-> "dir", tables |-> [kind |-> "dir", files |-> {"players.parquet"}],
       metadata |-> TRUE] }

\* The processed root once DemoIngestor.__init__ returned: validate and
\* ensure_root leave a directory.
IngestRoots == { [kind |-> "dir", entries |-> e] : e \in [DemoNames -> IngestEntries] }

\* The entry an earlier run left for a demo.
EarlierEntry(name) ==
    ManifestEntry(<<name>>, [total_rounds |-> 24, tables |-> <<"players">>],
                  <<"players">>, 0)

\* What <root>/manifest.json may hold when the ingestor starts: nothing,
\* bytes that are no JSON, or the entries of earlier runs.
IngestManifests ==
    { [kind |-> "absent", entries |-> <<>>],
      [kind |-> "corrupt", entries |-> <<>>],
      [kind |-> "json", entries |-> <<EarlierEntry("m2.dem")>>],
      [kind |-> "json", entries |-> <<EarlierEntry("m1.dem"), EarlierEntry("m2.dem")>>] }

InitIngest ==
    /\ root \in IngestRoots
    /\ indexFile = [kind |-> "absent", doc |-> NoManifest]
    /\ strategy = TreeStrategy
    /\ table = NoTable
    /\ op = [name |-> "init", prev |-> NoRet]
    /\ ret = NoRet
    /\ clock = 1
    /\ metrics = NoMetrics
    /\ manifestFile \in IngestManifests
    /\ sourceFiles \in SUBSET DemoFiles
    /\ DemoParser \in {"awpy", "None"}

\* ingestor.ingest(paths)
IngestCall ==
    /\ op.name = "init"
    /\ \E input \in IngestInputs, outcomes \in [DemoFiles -> IngestOutcomes],
          ord \in ListingOrders :
         \E r \in {Ingest([files |-> sourceFiles, parser |-> DemoParser,
                           outcomes |-> outcomes, now |-> clock],
                          root, manifestFile, input, ord)} :
             /\ root' = r.tree
             /\ manifestFile' = r.file
             /\ ret' = [kind |-> IF r.raised = "" THEN "none" ELSE "raise",
                        raised |-> r.raised, names |-> r.names,
                        attempted |-> r.attempted, failures |-> r.failures]
             /\ op' = [name |-> "ingest", prev |-> ret, before |-> root,
                       manifest_before |-> manifestFile, input |-> input,
                       outcomes |-> outcomes]
    /\ clock' = clock + 1
    /\ UNCHANGED <<indexFile, strategy, table, sourceFiles, DemoParser, metrics>>

NextIngest == IngestCall

SpecIngest == InitIngest /\ [][NextIngest]_vars

InitManifest ==
    /\ root \in IngestRoots
    /\ indexFile = [kind |-> "absent", doc |-> NoManifest]
    /\ strategy = TreeStrategy
    /\ table = NoTable
    /\ op = [name |-> "init", prev |-> NoRet]
    /\ ret = NoRet
    /\ clock = 1
    /\ metrics = NoMetrics
    /\ manifestFile \in IngestManifests
    /\ sourceFiles = DemoFiles
    /\ DemoParser = "awpy"

\* ingestor._update_manifest(demo_path, parse_result, table_names)
UpdateManifestCall ==
    /\ clock <= MaxCalls
    /\ \E demo_path \in { <<f>> : f \in DemoFiles }, parse_result \in ParseResults :
         \E r \in {UpdateManifest(root, manifestFile, demo_path, parse_result,
                                  parse_result.tables, clock)} :
             /\ root' = r.tree
             /\ manifestFile' = r.file
             /\ ret' = [NoRet EXCEPT !.kind = IF r.raised = "" THEN "none" ELSE "raise",
                                     !.raised = r.raised]
             /\ op' = [name |-> "_update_manifest", prev |-> ret, before |-> root,
                       manifest_before |-> manifestFile, demo_path |-> demo_path,
                       parse_result |-> parse_result]
    /\ clock' = clock + 1
    /\ UNCHANGED <<indexFile, strategy, table, sourceFiles, DemoParser, metrics>>

NextManifest == UpdateManifestCall

SpecManifest == InitManifest /\ [][NextManifest]_vars

----------------------------------------------------------------------------
(* One ingest() run taken a statement at a time: op holds the position of   *)
(* the run (pc), the paths still to process, the demo being processed, its  *)
(* parse result, the tables still to write, those written and the failures  *)
(* collected. A write of a file may fail with OSError, and then leaves the  *)
(* file or not.                                                            *)

\* Lines 136-155 of _process_single_demo: the checks, demo_dir and the parse.
BeginDemo(tree, files, parser, demo_path, outcome) ==
    LET Parsed(dir) ==
            IF dir.raised # "" THEN [raised |-> dir.raised, tree |-> dir.tree]
            ELSE IF outcome.raised # "" THEN [raised |-> "RuntimeError", tree |-> dir.tree]
            ELSE [raised |-> "", tree |-> dir.tree]
    IN  IF PathName(demo_path) \notin files
        THEN [raised |-> "FileNotFoundError", tree |-> tree]
        ELSE IF parser = "None"
        THEN [raised |-> "ModuleNotFoundError", tree |-> tree]
        ELSE Parsed(DemoDir(tree, Stem(PathName(demo_path))))

\* A run that goes on to the next statement whatever the last one raised.
ProceedRegardless(o, raised, next) == [o EXCEPT !.pc = next]

\* Where the run goes after a statement of _process_single_demo: to the next
\* statement, or, when the statement raised, to the except clause of lines
\* 119-121, which records the failure and takes the next path.
Proceed(o, raised, next) ==
    IF raised # ""
    THEN [o EXCEPT !.pc = "loop",
                   !.failures = Append(@, [path |-> o.demo_path, exc |-> raised])]
    ELSE [o EXCEPT !.pc = next]

\* What a write may do: succeed, or raise OSError.
WriteOutcomes == {"", "OSError"}

InitSteps ==
    /\ root \in IngestRoots
    /\ indexFile = [kind |-> "absent", doc |-> NoManifest]
    /\ strategy = TreeStrategy
    /\ table = NoTable
    /\ manifestFile \in IngestManifests
    /\ op = [name |-> "init", pc |-> "init", todo |-> <<>>, demo_path |-> <<>>,
             parse_result |-> NoParse, pending |-> <<>>, table_names |-> <<>>,
             failures |-> <<>>, before |-> root, manifest_before |-> manifestFile]
    /\ ret = NoRet
    /\ clock = 1
    /\ metrics = NoMetrics
    /\ sourceFiles \in {DemoFiles, {"m2.dem"}}
    /\ DemoParser = "awpy"

\* ingest(paths), line 116: the paths to process.
IngestStart ==
    /\ op.pc = "init"
    /\ \E input \in IngestInputs, ord \in ListingOrders :
         op' = [op EXCEPT !.name = "ingest", !.pc = "loop",
                          !.todo = PathsOr(input, sourceFiles, ord)]
    /\ UNCHANGED <<root, indexFile, strategy, table, ret, clock,
                   manifestFile, sourceFiles, DemoParser, metrics>>

\* The next path of the loop, up to the parse (lines 116-155).
BeginDemoStep ==
    /\ op.pc = "loop"
    /\ op.todo # <<>>
    /\ \E outcome \in IngestOutcomes :
         \E r \in {BeginDemo(root, sourceFiles, DemoParser, op.todo[1], outcome)} :
             /\ root' = r.tree
             /\ op' = Proceed([op EXCEPT !.todo = Tail(op.todo),
                                         !.demo_path = op.todo[1],
                                         !.parse_result = outcome.parse_result,
                                         !.pending = outcome.parse_result.tables,
                                         !.table_names = <<>>],
                              r.raised,
                              IF outcome.parse_result.tables = <<>>
                              THEN "metadata" ELSE "persist")
    /\ UNCHANGED <<indexFile, strategy, table, ret, clock,
                   manifestFile, sourceFiles, DemoParser, metrics>>

\* One turn of the loop of _persist_parse_result (lines 177-180).
WriteTableStep ==
    /\ op.pc = "persist"
    /\ \E io \in WriteOutcomes, left \in BOOLEAN :
         \E at \in {LayoutTablePath(root, Stem(PathName(op.demo_path)), op.pending[1])} :
             /\ (io = "" => left)
             /\ root' = IF at.raised = "" /\ left
                        THEN WriteParquet(at.tree, Stem(PathName(op.demo_path)),
                                          PathName(at.path))
                        ELSE at.tree
             /\ op' = Proceed([op EXCEPT !.pending = Tail(op.pending),
                                         !.table_names =
                                             IF at.raised = "" /\ io = ""
                                             THEN Append(@, op.pending[1]) ELSE @],
                              IF at.raised # "" THEN at.raised ELSE io,
                              IF Tail(op.pending) = <<>> THEN "metadata" ELSE "persist")
    /\ UNCHANGED <<indexFile, strategy, table, ret, clock,
                   manifestFile, sourceFiles, DemoParser, metrics>>

\* self._write_metadata(...), line 158.
WriteMetadataStep ==
    /\ op.pc = "metadata"
    /\ \E io \in WriteOutcomes, left \in BOOLEAN :
         \E at \in {MetadataPath(root, Stem(PathName(op.demo_path)))} :
             /\ (io = "" => left)
             /\ root' = IF at.raised = "" /\ left
                        THEN WriteMetadata(root, Stem(PathName(op.demo_path))).tree
                        ELSE at.tree
             /\ op' = Proceed(op, IF at.raised # "" THEN at.raised ELSE io, "manifest")
    /\ UNCHANGED <<indexFile, strategy, table, ret, clock,
                   manifestFile, sourceFiles, DemoParser, metrics>>

\* self._update_manifest(...), line 159, the last statement for the demo.
UpdateManifestStep ==
    /\ op.pc = "manifest"
    /\ \E r \in {UpdateManifest(root, manifestFile, op.demo_path, op.parse_result,
                                op.table_names, clock)} :
         /\ root' = r.tree
         /\ manifestFile' = r.file
         /\ op' = Proceed(op, r.raised, "loop")
    /\ UNCHANGED <<indexFile, strategy, table, ret, clock,
                   sourceFiles, DemoParser, metrics>>

\* Lines 123-125: the loop is over; ingest raises when a path failed.
IngestReturn ==
    /\ op.pc = "loop"
    /\ op.todo = <<>>
    /\ op' = [op EXCEPT !.pc = "return"]
    /\ ret' = [NoRet EXCEPT !.kind = IF op.failures # <<>> THEN "raise" ELSE "none",
                            !.raised = IF op.failures # <<>> THEN "RuntimeError" ELSE ""]
    /\ UNCHANGED <<root, indexFile, strategy, table, clock,
                   manifestFile, sourceFiles, DemoParser, metrics>>

NextSteps ==
    \/ IngestStart
    \/ BeginDemoStep
    \/ WriteTableStep
    \/ WriteMetadataStep
    \/ UpdateManifestStep
    \/ IngestReturn

SpecSteps == InitSteps /\ [][NextSteps]_vars

----------------------------------------------------------------------------
(* The indexer and the ingestor's manifest updates on one processed root:   *)
(* build_manifest, write_manifest and _update_manifest in any order.        *)

\* The processed root once DemoIngestor.__init__ returned and m2 was
\* ingested: m2 is a dataset, m10 is whatever the ingestor may find.
FeedbackRoots ==
    { r \in IngestRoots :
        r.entries["m2"] =
            [kind |-> "dir", tables |-> [kind |-> "dir", files |-> {"players.parquet"}],
             metadata |-> TRUE] }

InitFeedback ==
    /\ root \in FeedbackRoots
    /\ indexFile \in IndexFiles
    /\ strategy = TreeStrategy
    /\ table = NoTable
    /\ op = [name |-> "init", prev |-> NoRet]
    /\ ret = NoRet
    /\ clock = 1
    /\ metrics = NoMetrics
    /\ manifestFile \in IngestManifests
    /\ sourceFiles = DemoFiles
    /\ DemoParser = "awpy"

NextFeedback == BuildManifestCall \/ WriteManifestCall \/ UpdateManifestCall

SpecFeedback == InitFeedback /\ [][NextFeedback]_vars

----------------------------------------------------------------------------
(* Properties of write_manifest and build_manifest, under Spec. *)

\* The last operation was a build_manifest() that returned a manifest.
Built == op.name = "build_manifest" /\ ret.kind = "manifest"

\* The demo_stem of each record of a manifest, in order.
DemoStems(manifest) ==
    [i \in 1..Len(manifest.datasets) |-> manifest.datasets[i].demo_stem]

\* The manifest build_manifest() gives for the tree as it is, stamped now.
ManifestOfTree(now) ==
    BuildManifest(strategy, root, RootFiles, [k |-> 0, rev |-> FALSE], now).manifest

\* The demo directories holding a tables directory with a table file in it.
TabledDemos ==
    {d \in DemoNames :
        /\ root.kind = "dir"
        /\ root.entries[d].kind = "dir"
        /\ root.entries[d].tables.kind = "dir"
        /\ \E f \in root.entries[d].tables.files : Suffix(f) = ".parquet"}

\* C1: on a processed root that is a directory, write_manifest() returns the
\* path <root>/_manifest.json, and the file then exists and parses to a
\* document with the dataset_count and the demo_stems of the built manifest.
C1_WriteManifestPersists ==
    (op.name = "write_manifest" /\ root.kind = "dir") =>
        /\ ret.kind = "path"
        /\ ret.path = <<"_manifest.json">>
        /\ indexFile.kind = "json"
        /\ indexFile.doc.dataset_count = ManifestOfTree(clock - 1).dataset_count
        /\ DemoStems(indexFile.doc) = DemoStems(ManifestOfTree(clock - 1))

C3_DatasetsAreTabledDemos ==
    Built =>
        LET stems == DemoStems(ret.manifest)
        IN  /\ Range(stems) = TabledDemos
            /\ \A i, j \in DOMAIN stems : stems[i] = stems[j] => i = j
            /\ ret.manifest.dataset_count = Len(ret.manifest.datasets)

\* A manifest built from a root holding a plain file, a demo directory whose
\* tables directory holds no table file and a demo directory with tables.
C3_Witness ==
    /\ Built
    /\ indexFile.kind # "absent"
    /\ root.entries["m10"].kind = "dir"
    /\ root.entries["m10"].tables = [kind |-> "dir", files |-> {"notes.txt"}]
    /\ DemoStems(ret.manifest) = <<"m2">>

\* C4: in a manifest the records are strictly ascending by demo directory
\* name and the tables of each record strictly ascending by file name.
C4_ManifestSorted ==
    Built =>
        LET datasets == ret.manifest.datasets
        IN  /\ \A i, j \in DOMAIN datasets :
                  i < j => LexLess(NameCodes(datasets[i].demo_stem),
                                   NameCodes(datasets[j].demo_stem))
            /\ \A d \in DOMAIN datasets :
                  \A i, j \in DOMAIN datasets[d].tables :
                      i < j => LexLess(NameCodes(PathName(datasets[d].tables[i].path)),
                                       NameCodes(PathName(datasets[d].tables[j].path)))

\* A manifest of two records, each of two tables.
C4_Witness ==
    /\ Built
    /\ Len(ret.manifest.datasets) = 2
    /\ \A d \in 1..2 : Len(ret.manifest.datasets[d].tables) = 2

\* C5: two consecutive build_manifest() calls on an unchanged tree return
\* manifests equal in everything but generated_at.
C5_BuildDeterministic ==
    (Built /\ op.prev.kind = "manifest") =>
        /\ ret.manifest.dataset_count = op.prev.manifest.dataset_count
        /\ ret.manifest.datasets = op.prev.manifest.datasets

\* Two consecutive builds of a manifest whose tables carry an offset index
\* of several entries and a Bloom filter.
C5_Witness ==
    /\ Built
    /\ op.prev.kind = "manifest"
    /\ ret.manifest.generated_at # op.prev.manifest.generated_at
    /\ \E d \in DOMAIN ret.manifest.datasets :
          \E t \in DOMAIN ret.manifest.datasets[d].tables :
              LET summary == ret.manifest.datasets[d].tables[t]
              IN  /\ "round_number" \in DOMAIN summary.offset_index
                  /\ Len(summary.offset_index["round_number"]) = 2
                  /\ "winning_side" \in DOMAIN summary.bloom_filters

\* C10: a build_manifest() call leaves the processed tree and the files at
\* the root as they were.
C10_BuildLeavesTree ==
    [][op'.name = "build_manifest" => (root' = root /\ indexFile' = indexFile)]_vars

\* A manifest with a record of a demo directory that has no metadata.json.
C10_Witness ==
    /\ Built
    /\ \E d \in DOMAIN ret.manifest.datasets :
          /\ ret.manifest.datasets[d].metadata_file = <<>>
          /\ ~root.entries[ret.manifest.datasets[d].demo_stem].metadata

\* A demo directory of the tree holds a table file that cannot be read.
HoldsBrokenTable ==
    /\ root.kind = "dir"
    /\ \E d \in DemoNames :
          /\ root.entries[d].kind = "dir"
          /\ root.entries[d].tables.kind = "dir"
          /\ "broken.parquet" \in root.entries[d].tables.files

\* C14: with an unreadable table file under the root, build_manifest() raises
\* and returns no manifest, and write_manifest() raises and leaves the index
\* file as it was.
C14_BrokenTableAbortsBuild ==
    [][ /\ (HoldsBrokenTable /\ op'.name = "build_manifest") =>
              (ret'.kind = "raise" /\ ret'.manifest = NoManifest)
        /\ (HoldsBrokenTable /\ op'.name = "write_manifest") =>
              (ret'.kind = "raise" /\ ret'.path = <<>> /\ indexFile' = indexFile) ]_vars

\* A write_manifest() that raised on the unreadable table of one demo
\* directory, next to a demo directory of readable tables, with an earlier
\* manifest in the index file.
C14_Witness ==
    /\ op.name = "write_manifest"
    /\ ret.raised = "ComputeError"
    /\ indexFile = [kind |-> "json", doc |-> StaleManifest]
    /\ HoldsBrokenTable
    /\ \E d \in TabledDemos : "broken.parquet" \notin root.entries[d].tables.files

\* C19: in a manifest, the metadata_file of each record is the resolved path
\* <root>/<demo>/metadata.json when that file exists and null (the empty
\* path here) when it does not, and the demo directories with tables have
\* their record in both cases.
C19_MetadataFileIffExists ==
    Built =>
        /\ Range(DemoStems(ret.manifest)) = TabledDemos
        /\ \A i \in DOMAIN ret.manifest.datasets :
              LET record == ret.manifest.datasets[i]
              IN  record.metadata_file =
                      IF root.entries[record.demo_stem].metadata
                      THEN Resolve(<<record.demo_stem, metadata_filename>>)
                      ELSE <<>>

\* A manifest of two records, one of a demo directory with a metadata.json
\* and one of a demo directory without.
C19_Witness ==
    /\ Built
    /\ Len(ret.manifest.datasets) = 2
    /\ ret.manifest.datasets[1].metadata_file = <<>>
    /\ ret.manifest.datasets[2].metadata_file = <<"/", "processed", "m2", "metadata.json">>
    /\ ~root.entries["m10"].metadata
    /\ root.entries["m2"].metadata

----------------------------------------------------------------------------
(* Properties of the summary of one table, under SpecTable. *)

\* The last operation was a _summarise_table() that returned a summary.
Summarised == op.name = "_summarise_table" /\ ret.kind = "summary"

\* The columns a strategy mapping names for a table: those of the wildcard
\* entry and those of the table's own entry.
ConfiguredFor(mapping, table_name) ==
    UNION { Range(mapping[k]) : k \in DOMAIN mapping \cap {"*", table_name} }

SummarisedName == Stem(PathName(table.path))

\* C6: for every indexed column, every row index 0..row_count-1 is in the
\* positions of exactly one entry, once, that entry's value is the value the
\* row holds (null included), no entry is empty and no position is outside
\* the rows.
C6_OffsetIndexPartitionsRows ==
    Summarised =>
        \A c \in DOMAIN ret.summary.offset_index :
            LET entries == ret.summary.offset_index[c]
                rows == 0..(ret.summary.row_count - 1)
            IN  /\ \A e \in DOMAIN entries :
                      /\ entries[e].positions # <<>>
                      /\ Range(entries[e].positions) \subseteq rows
                      /\ \A i, j \in DOMAIN entries[e].positions :
                            entries[e].positions[i] = entries[e].positions[j] => i = j
                /\ \A r \in rows :
                      /\ Cardinality({e \in DOMAIN entries :
                                        r \in Range(entries[e].positions)}) = 1
                      /\ \A e \in DOMAIN entries :
                            r \in Range(entries[e].positions) =>
                                entries[e].value = table.file.frame.data[c][r + 1]

\* A summary with two indexed columns, one of an entry for null and an entry
\* for a value, the other of one entry holding both rows.
C6_Witness ==
    /\ Summarised
    /\ DOMAIN ret.summary.offset_index = {"round_number", "winning_side"}
    /\ Len(ret.summary.offset_index["round_number"]) = 2
    /\ ret.summary.offset_index["round_number"][1].value = None
    /\ Len(ret.summary.offset_index["winning_side"]) = 1
    /\ ret.summary.offset_index["winning_side"][1].positions = <<0, 1>>

\* C7: every Bloom filter has num_bits 2048 and hash_count 3, and for every
\* non-null value of its column each of the positions derived from str(v)
\* with the salts 0..hash_count-1, modulo num_bits, is in set_bits.
C7_BloomNoFalseNegative ==
    Summarised =>
        \A c \in DOMAIN ret.summary.bloom_filters :
            LET filter == ret.summary.bloom_filters[c]
            IN  /\ filter.num_bits = 2048
                /\ filter.hash_count = 3
                /\ \A i \in 1..table.file.frame.height :
                      LET v == table.file.frame.data[c][i]
                      IN  v # None =>
                            \A salt \in 0..(filter.hash_count - 1) :
                                (Digest(Encoded(v), salt) % filter.num_bits)
                                    \in Range(filter.set_bits)

\* A Bloom filter over a column holding two distinct values.
C7_Witness ==
    /\ Summarised
    /\ "winning_side" \in DOMAIN ret.summary.bloom_filters
    /\ table.file.frame.height = 2
    /\ table.file.frame.data["winning_side"][1] # None
    /\ table.file.frame.data["winning_side"][2] # None
    /\ table.file.frame.data["winning_side"][1] # table.file.frame.data["winning_side"][2]
    /\ Len(ret.summary.bloom_filters["winning_side"].set_bits) > 3

\* C8: the columns that get an offset index (a Bloom filter) are exactly the
\* columns of the table named by the wildcard entry or by the table's own
\* entry of the mapping.
C8_WildcardUnion ==
    Summarised =>
        /\ DOMAIN ret.summary.offset_index =
              ConfiguredFor(strategy.offset_columns, SummarisedName)
                  \cap Range(table.file.frame.columns)
        /\ DOMAIN ret.summary.bloom_filters =
              ConfiguredFor(strategy.bloom_filter_columns, SummarisedName)
                  \cap Range(table.file.frame.columns)

\* A summary under a mapping with a wildcard entry, an entry of the table
\* and an entry of another table, the first two naming different columns.
C8_Witness ==
    /\ Summarised
    /\ DOMAIN strategy.offset_columns = {"*", "players", "rounds"}
    /\ strategy.offset_columns["*"] = <<"round_number">>
    /\ strategy.offset_columns["rounds"] = <<"tick", "winning_side">>
    /\ strategy.offset_columns["players"] = <<"tick", "winning_side">>
    /\ DOMAIN ret.summary.offset_index = {"round_number", "winning_side"}

\* C9: summarising a table never raises on account of a configured column
\* the table lacks; such a column has no key in offset_index or
\* bloom_filters, and every configured column the table holds has one.
C9_MissingColumnSkipped ==
    op.name = "_summarise_table" =>
        /\ ret.kind = "summary"
        /\ \A c \in ConfiguredFor(strategy.offset_columns, SummarisedName) :
              c \in DOMAIN ret.summary.offset_index
                  <=> c \in Range(table.file.frame.columns)
        /\ \A c \in ConfiguredFor(strategy.bloom_filter_columns, SummarisedName) :
              c \in DOMAIN ret.summary.bloom_filters
                  <=> c \in Range(table.file.frame.columns)

\* A summary under mappings naming "tick", which the table lacks, and
\* "winning_side", which it holds.
C9_Witness ==
    /\ Summarised
    /\ "tick" \in ConfiguredFor(strategy.offset_columns, SummarisedName)
    /\ "tick" \in ConfiguredFor(strategy.bloom_filter_columns, SummarisedName)
    /\ "round_number" \in ConfiguredFor(strategy.offset_columns, SummarisedName)
    /\ table.file.frame.columns = <<"winning_side">>
    /\ DOMAIN ret.summary.offset_index = {"winning_side"}
    /\ DOMAIN ret.summary.bloom_filters = {"winning_side"}

\* The order of two non-null values of one column: numbers by value, strings
\* by their UTF-8 bytes.
ValueBelow(x, y) ==
    IF x.kind = "int" THEN x.v < y.v ELSE LexLess(StringPool[x.v], StringPool[y.v])

\* C21: for every indexed column no two entries hold the same value (null
\* included), the non-null values of the entries are strictly ascending in
\* the order of the list, and the positions of every entry are row indices
\* counted from 0 in strictly ascending order.
C21_OffsetEntriesAscending ==
    Summarised =>
        \A c \in DOMAIN ret.summary.offset_index :
            LET entries == ret.summary.offset_index[c]
            IN  /\ \A i, j \in DOMAIN entries :
                      i < j =>
                          /\ entries[i].value # entries[j].value
                          /\ (entries[i].value # None /\ entries[j].value # None)
                                 => ValueBelow(entries[i].value, entries[j].value)
                /\ \A e \in DOMAIN entries :
                      /\ \A p \in DOMAIN entries[e].positions :
                            entries[e].positions[p] \in 0..(ret.summary.row_count - 1)
                      /\ \A p, q \in DOMAIN entries[e].positions :
                            p < q => entries[e].positions[p] < entries[e].positions[q]

\* A summary whose winning_side column holds "T" in row 0 and "CT" in row 1,
\* indexed as "CT" then "T", and whose round_number column holds one value in
\* both rows, indexed as one entry of positions 0, 1.
C21_Witness ==
    /\ Summarised
    /\ DOMAIN ret.summary.offset_index = {"round_number", "winning_side"}
    /\ table.file.frame.data["winning_side"] = <<PyStr(1), PyStr(2)>>
    /\ ret.summary.offset_index["winning_side"] =
           << [value |-> PyStr(2), positions |-> <<1>>],
              [value |-> PyStr(1), positions |-> <<0>>] >>
    /\ Len(ret.summary.offset_index["round_number"]) = 1
    /\ ret.summary.offset_index["round_number"][1].positions = <<0, 1>>

\* The numeric-typed columns of the summarised table.
NumericColumns ==
    {c \in Range(table.file.frame.columns) : IsNumeric(Dtype(c))}

\* The non-null values of a column of the summarised table.
NonNull(c) ==
    {table.file.frame.data[c][i] : i \in 1..table.file.frame.height} \ {None}

\* stats is the empty object when the statistics are off or no column is
\* numeric, and otherwise two mappings min and max keyed by the numeric
\* columns that bound every non-null value of their column.
StatsShape ==
    IF ~strategy.numeric_statistics \/ NumericColumns = {}
    THEN DOMAIN ret.summary.stats = {}
    ELSE /\ DOMAIN ret.summary.stats = {"min", "max"}
         /\ DOMAIN ret.summary.stats["min"] = NumericColumns
         /\ DOMAIN ret.summary.stats["max"] = NumericColumns
         /\ \A c \in NumericColumns :
               \A v \in NonNull(c) :
                   /\ ret.summary.stats["min"][c] # None
                   /\ ret.summary.stats["max"][c] # None
                   /\ ret.summary.stats["min"][c].v <= v.v
                   /\ v.v <= ret.summary.stats["max"][c].v

\* C22 as stated: the shape above, and min[c] and max[c] are values that
\* occur in c (a null cell counted as an occurrence of null).
C22_StatsOccurInColumn ==
    Summarised =>
        /\ StatsShape
        /\ DOMAIN ret.summary.stats # {} =>
              \A c \in NumericColumns :
                  /\ ret.summary.stats["min"][c] \in Range(table.file.frame.data[c])
                  /\ ret.summary.stats["max"][c] \in Range(table.file.frame.data[c])

\* C22: stats is the empty object when numeric_statistics is false or the
\* table has no numeric column; otherwise it has exactly the keys min and
\* max, both keyed by the numeric columns, with min[c] <= v <= max[c] for
\* every non-null value v of c, min[c] and max[c] being non-null values of c
\* when c has one and null when it has none.
C22_StatsBoundColumn ==
    Summarised =>
        /\ StatsShape
        /\ DOMAIN ret.summary.stats # {} =>
              \A c \in NumericColumns :
                  IF NonNull(c) = {}
                  THEN /\ ret.summary.stats["min"][c] = None
                       /\ ret.summary.stats["max"][c] = None
                  ELSE /\ ret.summary.stats["min"][c] \in NonNull(c)
                       /\ ret.summary.stats["max"][c] \in NonNull(c)

\* The statistics of a table whose round_number column holds 12 then 1.
C22_Witness ==
    /\ Summarised
    /\ strategy.numeric_statistics
    /\ table.file.frame.data["round_number"] = <<PyInt(12), PyInt(1)>>
    /\ ret.summary.stats["min"]["round_number"] = PyInt(1)
    /\ ret.summary.stats["max"]["round_number"] = PyInt(12)

\* C23: the set_bits of every Bloom filter are strictly ascending (hence
\* distinct), each in 0..num_bits-1, at most hash_count for each distinct
\* non-null value of the column, none when the column has no non-null value
\* and some when it has one, and every one of them is a position derived
\* from a non-null value of the column (null sets no bit).
C23_SetBitsAscendingBounded ==
    Summarised =>
        \A c \in DOMAIN ret.summary.bloom_filters :
            LET filter == ret.summary.bloom_filters[c]
                bits == ret.summary.bloom_filters[c].set_bits
            IN  /\ \A i, j \in DOMAIN bits : i < j => bits[i] < bits[j]
                /\ \A i \in DOMAIN bits : bits[i] \in 0..(filter.num_bits - 1)
                /\ Len(bits) <= filter.hash_count * Cardinality(NonNull(c))
                /\ (bits = <<>>) <=> (NonNull(c) = {})
                /\ Range(bits) \subseteq
                       { Digest(Encoded(v), salt) % filter.num_bits :
                             v \in NonNull(c), salt \in 0..(filter.hash_count - 1) }

\* A Bloom filter over a column holding null in row 0 and "T" in row 1, of
\* at most three bits, next to one over a column of nulls only, of no bit.
C23_Witness ==
    /\ Summarised
    /\ DOMAIN ret.summary.bloom_filters = {"round_number", "winning_side"}
    /\ table.file.frame.data["winning_side"] = <<None, PyStr(1)>>
    /\ table.file.frame.data["round_number"] = <<None, None>>
    /\ Len(ret.summary.bloom_filters["winning_side"].set_bits) \in 1..3
    /\ ret.summary.bloom_filters["round_number"].set_bits = <<>>

----------------------------------------------------------------------------
(* Properties of the layout and of the indexer's construction, under       *)
(* SpecLayout.                                                             *)

\* The path table_path is to return for the arguments of the last call.
ExpectedTablePath ==
    <<op.demo_stem, tables_dirname, ParquetName(op.table_name)>>

\* The path metadata_path is to return for the arguments of the last call.
ExpectedMetadataPath == <<op.demo_stem, metadata_filename>>

\* The last call was table_path or metadata_path on a root directory where
\* <root>/<demo_stem>, or <root>/<demo_stem>/tables, did not exist.
CalledOnMissingDirectory ==
    /\ op.name \in {"table_path", "metadata_path"}
    /\ op.before.kind = "dir"
    /\ \/ op.before.entries[op.demo_stem].kind = "absent"
       \/ /\ op.before.entries[op.demo_stem].kind = "dir"
          /\ op.before.entries[op.demo_stem].tables.kind = "absent"

\* C11 as claimed: table_path and metadata_path called where <root>/<id> or
\* <root>/<id>/tables does not exist return the path and leave the tree as
\* it was.
C11_PathsCreateNothing ==
    CalledOnMissingDirectory =>
        /\ ret.kind = "path"
        /\ ret.path = IF op.name = "table_path" THEN ExpectedTablePath
                      ELSE ExpectedMetadataPath
        /\ root = op.before

\* C11, amended: a table_path or metadata_path call that returns gives
\* <root>/<id>/tables/<name>.parquet, respectively <root>/<id>/metadata.json,
\* and creates no file: the tree differs from the one before the call only
\* in that the directories <root>, <root>/<id> and, for table_path,
\* <root>/<id>/tables now exist; every file and every other entry is as it
\* was.
C11_PathsCreateDirectoriesOnly ==
    (op.name \in {"table_path", "metadata_path"} /\ ret.kind = "path") =>
        /\ ret.path = IF op.name = "table_path" THEN ExpectedTablePath
                      ELSE ExpectedMetadataPath
        /\ root.kind = "dir"
        /\ \A d \in DemoNames \ {op.demo_stem} : root.entries[d] = op.before.entries[d]
        /\ root.entries[op.demo_stem].kind = "dir"
        /\ root.entries[op.demo_stem].metadata = op.before.entries[op.demo_stem].metadata
        /\ root.entries[op.demo_stem].tables.files =
               op.before.entries[op.demo_stem].tables.files
        /\ root.entries[op.demo_stem].tables.kind =
               IF op.name = "table_path" THEN "dir"
               ELSE op.before.entries[op.demo_stem].tables.kind

\* A table_path call that returned on a root directory without <root>/<id>,
\* after which the root differs from before, while another demo directory
\* holds table files.
C11_Witness ==
    /\ CalledOnMissingDirectory
    /\ op.name = "table_path"
    /\ ret.kind = "path"
    /\ op.before.entries[op.demo_stem].kind = "absent"
    /\ root # op.before
    /\ \E d \in DemoNames : root.entries[d].tables.files # {}

\* C12: when table_path(id, name) returns, the parent of the path it returns
\* is <root>/<id>/tables and that directory exists.
C12_TablePathParentExists ==
    (op.name = "table_path" /\ ret.kind = "path") =>
        /\ SubSeq(ret.path, 1, Len(ret.path) - 1) = <<op.demo_stem, tables_dirname>>
        /\ root.kind = "dir"
        /\ root.entries[op.demo_stem].kind = "dir"
        /\ root.entries[op.demo_stem].tables.kind = "dir"

\* A table_path call that returned on a processed root that did not exist.
C12_Witness ==
    /\ op.name = "table_path"
    /\ ret.kind = "path"
    /\ op.before.kind = "missing"
    /\ root.entries[op.demo_stem].tables = [kind |-> "dir", files |-> {}]

\* C13: constructing a DatasetIndexer on a processed root that is missing or
\* no directory raises, and leaves the root as it was.
C13_IndexerInitFailsFast ==
    (op.name = "DatasetIndexer" /\ op.before.kind # "dir") =>
        /\ ret.kind = "raise"
        /\ root = op.before

----------------------------------------------------------------------------
(* Properties of ingest, under SpecIngest. *)

\* The demo at path cannot be ingested from the state the last ingest began
\* in: its file is missing, there is no parser, the parser raises on it, a
\* plain file stands where its directory or its tables directory belongs, or
\* the ingestion manifest cannot be parsed.
Fails(path) ==
    \/ PathName(path) \notin sourceFiles
    \/ DemoParser = "None"
    \/ op.outcomes[PathName(path)].raised # ""
    \/ op.before.entries[Stem(PathName(path))].kind = "file"
    \/ op.before.entries[Stem(PathName(path))].tables.kind = "file"
    \/ op.manifest_before.kind = "corrupt"

\* The entries of the ingestion manifest for a demo stem.
EntriesOf(file, demo_stem) ==
    SelectSeq(file.entries, LAMBDA entry : entry.demo_stem = demo_stem)

\* The demo at path has its tables, its metadata.json and its manifest entry.
Ingested(path) ==
    LET demo_stem == Stem(PathName(path))
        tables == op.outcomes[PathName(path)].parse_result.tables
    IN  /\ root.entries[demo_stem].kind = "dir"
        /\ root.entries[demo_stem].tables.kind = "dir"
        /\ \A i \in DOMAIN tables :
              ParquetName(tables[i]) \in root.entries[demo_stem].tables.files
        /\ root.entries[demo_stem].metadata
        /\ manifestFile.kind = "json"
        /\ Len(EntriesOf(manifestFile, demo_stem)) = 1
        /\ EntriesOf(manifestFile, demo_stem)[1].demo_name = PathName(path)
        /\ EntriesOf(manifestFile, demo_stem)[1].tables = tables

\* C15: ingest hands every path of its input to _process_single_demo once
\* and in input order, whatever fails on the way; it raises one RuntimeError
\* exactly when a path it processed failed, the error names the failed demos
\* in order, and every demo that did not fail has its tables, its metadata
\* and its manifest entry when ingest ends.
C15_IngestAggregatesFailures ==
    op.name = "ingest" =>
        /\ op.input.paths # <<>> => ret.attempted = op.input.paths
        /\ (ret.kind = "raise") <=> (\E i \in DOMAIN ret.attempted : Fails(ret.attempted[i]))
        /\ ret.kind = "raise" =>
              /\ ret.raised = "RuntimeError"
              /\ ret.names = [i \in 1..Len(SelectSeq(ret.attempted, Fails)) |->
                                PathName(SelectSeq(ret.attempted, Fails)[i])]
        /\ \A i \in DOMAIN ret.attempted :
              ~Fails(ret.attempted[i]) => Ingested(ret.attempted[i])

\* An ingest of two paths whose first demo failed in the parser and whose
\* second was ingested all the same.
C15_Witness ==
    /\ op.name = "ingest"
    /\ op.input.paths = << <<"m2.dem">>, <<"m10.dem">> >>
    /\ op.outcomes["m2.dem"].raised # ""
    /\ ret.kind = "raise"
    /\ ret.names = <<"m2.dem">>
    /\ Ingested(<<"m10.dem">>)
    /\ Len(op.outcomes["m10.dem"].parse_result.tables) = 2

\* C16: ingest processes the paths it is given whenever paths is not None,
\* none when the list is empty, and the discovered demos, sorted, when paths
\* is None.
C16_IngestProcessesGivenPaths ==
    op.name = "ingest" =>
        ret.attempted =
            IF op.input.kind = "None"
            THEN ListDemoFiles(sourceFiles, [k |-> 0, rev |-> FALSE])
            ELSE op.input.paths

----------------------------------------------------------------------------
(* Properties of _update_manifest, under SpecManifest. *)

\* The demo_stem of each entry of the ingestion manifest, in order.
EntryStems(file) == [i \in DOMAIN file.entries |-> file.entries[i].demo_stem]

\* The last operation was an _update_manifest that returned.
Updated == op.name = "_update_manifest" /\ ret.kind = "none"

\* C17: the ingestion manifest never holds two entries of one demo_stem;
\* an _update_manifest call that returns leaves the entry of its demo last,
\* with the values of the call, after the entries of the other demos in the
\* order they had.
C17_OneEntryPerStem ==
    /\ \A i, j \in DOMAIN manifestFile.entries :
          manifestFile.entries[i].demo_stem = manifestFile.entries[j].demo_stem => i = j
    /\ Updated =>
          /\ manifestFile.kind = "json"
          /\ manifestFile.entries # <<>>
          /\ manifestFile.entries[Len(manifestFile.entries)] =
                 ManifestEntry(op.demo_path, op.parse_result, op.parse_result.tables,
                               clock - 1)
          /\ SubSeq(manifestFile.entries, 1, Len(manifestFile.entries) - 1) =
                 SelectSeq(op.manifest_before.entries,
                           LAMBDA entry : entry.demo_stem # Stem(PathName(op.demo_path)))

\* A second update of a demo, with another total_rounds, in a manifest of
\* three demos: its entry moved from the middle to the end.
C17_Witness ==
    /\ Updated
    /\ EntryStems(op.manifest_before) = <<"m1", "m2", "m10">>
    /\ EntryStems(manifestFile) = <<"m1", "m10", "m2">>
    /\ op.manifest_before.entries[2].total_rounds = 24
    /\ manifestFile.entries[3].total_rounds = 30

\* C18: on an ingestion manifest that cannot be parsed, _update_manifest
\* raises (ValueError, unless a layout call raised first), and the file is
\* left as it was.
C18_CorruptManifestRaises ==
    (op.name = "_update_manifest" /\ op.manifest_before.kind = "corrupt") =>
        /\ ret.kind = "raise"
        /\ manifestFile = op.manifest_before
        /\ ( /\ op.before.entries[Stem(PathName(op.demo_path))].kind # "file"
             /\ op.before.entries[Stem(PathName(op.demo_path))].tables.kind # "file" )
           => ret.raised = "ValueError"

\* An update that raised ValueError on an unparseable manifest after it
\* created the demo's directories.
C18_Witness ==
    /\ op.name = "_update_manifest"
    /\ op.manifest_before.kind = "corrupt"
    /\ ret.raised = "ValueError"
    /\ manifestFile.kind = "corrupt"
    /\ root # op.before

----------------------------------------------------------------------------
(* Properties of the steps of one ingest() run, under SpecSteps. *)

\* The entries of the manifest file that this run wrote.
WrittenByRun ==
    {e \in Range(manifestFile.entries) : e \notin Range(op.manifest_before.entries)}

\* <root>/<demo_stem>/metadata.json and <root>/<demo_stem>/tables/<t>.parquet
\* for every t of names exist in the tree.
FilesOnDisk(tree, demo_stem, names) ==
    /\ tree.entries[demo_stem].kind = "dir"
    /\ tree.entries[demo_stem].metadata
    /\ names # <<>> =>
          /\ tree.entries[demo_stem].tables.kind = "dir"
          /\ \A i \in DOMAIN names :
                ParquetName(names[i]) \in tree.entries[demo_stem].tables.files

\* C24: in every step of a run, metadata.json is written only once every
\* table of the parse result is on disk, the manifest file changes only once
\* the demo's metadata.json and tables are on disk, a statement that raises
\* leaves the manifest file alone and sends the run to the next path, and
\* after the step every entry this run wrote names a demo whose
\* metadata.json and listed tables exist.
C24_TablesMetadataThenEntry ==
    [][ /\ (op.pc = "metadata" /\ op'.pc = "manifest") =>
              \A i \in DOMAIN op.parse_result.tables :
                  ParquetName(op.parse_result.tables[i])
                      \in root.entries[Stem(PathName(op.demo_path))].tables.files
        /\ manifestFile' # manifestFile =>
              FilesOnDisk(root, Stem(PathName(op.demo_path)), op.parse_result.tables)
        /\ Len(op'.failures) > Len(op.failures) =>
              /\ manifestFile' = manifestFile
              /\ op'.pc = "loop"
        /\ \A e \in WrittenByRun' : FilesOnDisk(root', e.demo_stem, e.tables)
      ]_vars

\* A run over a root without m10 wrote the entry of m10 with two tables,
\* after a write for m2 failed.
C24_Witness ==
    /\ op.pc = "return"
    /\ op.before.entries["m10"] = AbsentEntry
    /\ \E e \in WrittenByRun : e.demo_stem = "m10" /\ e.tables = <<"players", "rounds">>
    /\ \E i \in DOMAIN op.failures :
          op.failures[i].path = <<"m2.dem">> /\ op.failures[i].exc = "OSError"

----------------------------------------------------------------------------
(* Properties of the indexer next to the ingestor's manifest, under         *)
(* SpecFeedback.                                                           *)

\* Two calls of build_manifest raise the same or return the same datasets
\* and dataset_count.
SameDatasets(before, after) ==
    /\ after.raised = before.raised
    /\ after.manifest.datasets = before.manifest.datasets
    /\ after.manifest.dataset_count = before.manifest.dataset_count

\* C25: a write_manifest() or an _update_manifest() leaves build_manifest()
\* returning the datasets and dataset_count it returned before the call
\* (or raising what it raised); no dataset of a manifest
\* is <root>/_manifest.json or <root>/manifest.json; write_manifest leaves
\* the ingestion manifest file as it was and _update_manifest leaves
\* <root>/_manifest.json as it was.
C25_ManifestsNeverFeedBack ==
    [][ /\ op'.name \in {"write_manifest", "_update_manifest"} =>
              SameDatasets(
                  BuildManifest(strategy, root, RootFiles, [k |-> 0, rev |-> FALSE], 0),
                  BuildManifest(strategy, root', RootFiles', [k |-> 0, rev |-> FALSE], 0))
        /\ (op'.name = "build_manifest" /\ ret'.kind = "manifest") =>
              \A i \in DOMAIN ret'.manifest.datasets :
                  ret'.manifest.datasets[i].demo_stem
                      \notin {"_manifest.json", manifest_filename}
        /\ op'.name = "write_manifest" => manifestFile' = manifestFile
        /\ op'.name = "_update_manifest" => indexFile' = indexFile
      ]_vars

\* A build_manifest() of one dataset over a root that holds _manifest.json,
\* the manifest.json an _update_manifest() just wrote for m10 and the empty
\* m10/tables that call created.
C25_Witness ==
    /\ op.name = "build_manifest"
    /\ ret.kind = "manifest"
    /\ ret.manifest.dataset_count = 1
    /\ ret.manifest.datasets[1].demo_stem = "m2"
    /\ indexFile.kind = "json"
    /\ manifestFile.kind = "json"
    /\ \E i \in DOMAIN manifestFile.entries :
          /\ manifestFile.entries[i].demo_stem = "m10"
          /\ manifestFile.entries[i].processed_at = 1
    /\ root.entries["m10"].tables = [kind |-> "dir", files |-> {}]
    /\ RootFiles = {"_manifest.json", "manifest.json"}

----------------------------------------------------------------------------
(* metrics.pacing.summarize_pacing. A metric frame is [columns, rows], rows *)
(* a sequence of records over the columns.                                 *)

\* The metric column of each input, in the order of the frames tuple.
MetricColumns == <<"time_to_first_kill", "time_to_bomb_plant", "average_death_seconds">>

\* frame.select("round_number"), as the sequence of its values.
SelectRounds(frame) == [i \in DOMAIN frame.rows |-> frame.rows[i].round_number]

\* pl.concat(round_frames).unique(): the distinct rounds, in the order ord.
UniqueRounds(frames, ord) ==
    Enumerate(Range(SelectRounds(frames[1]) \o SelectRounds(frames[2])
                        \o SelectRounds(frames[3])), ord)

\* The rows of right whose round_number is that of the row left.
Matches(left, right) ==
    SelectSeq(right.rows, LAMBDA row : row.round_number = left.round_number)

\* The rows a join gives for one row of the left frame when only matched
\* rows are kept.
JoinRowInner(left, right, column) ==
    [i \in DOMAIN Matches(left, right) |->
        left @@ (column :> Matches(left, right)[i][column])]

\* The rows a left join gives for one row of the left frame: one for each
\* matching row of right, or one holding null when none matches.
JoinRow(left, right, column) ==
    IF Matches(left, right) = <<>> THEN << left @@ (column :> None) >>
    ELSE [i \in DOMAIN Matches(left, right) |->
            left @@ (column :> Matches(left, right)[i][column])]

\* result.join(frame, on="round_number", how="left")
RECURSIVE JoinRows(_, _, _)
JoinRows(rows, right, column) ==
    IF rows = <<>> THEN <<>>
    ELSE JoinRow(rows[1], right, column) \o JoinRows(Tail(rows), right, column)

LeftJoin(result, frame) ==
    [columns |-> Append(result.columns, frame.columns[2]),
     rows |-> JoinRows(result.rows, frame, frame.columns[2])]

\* result.sort("round_number"): a stable sort, ascending.
RECURSIVE InsertRow(_, _)
InsertRow(sorted, row) ==
    IF sorted = <<>> THEN <<row>>
    ELSE IF row.round_number.v < sorted[1].round_number.v THEN <<row>> \o sorted
    ELSE <<sorted[1]>> \o InsertRow(Tail(sorted), row)

RECURSIVE SortRows(_)
SortRows(rows) ==
    IF rows = <<>> THEN <<>>
    ELSE InsertRow(SortRows(SubSeq(rows, 1, Len(rows) - 1)), rows[Len(rows)])

\* A summary that leaves the rows in the order the joins gave them.
UnsortedByRound(result) == result

\* Line 129: result.sort("round_number")
SortByRound(result) == [result EXCEPT !.rows = SortRows(result.rows)]

\* summarize_pacing
SummarizePacing(ttfk, ttbp, avg_death, ord) ==
    LET Rounds(rounds) ==
            [columns |-> <<"round_number">>,
             rows |-> [i \in DOMAIN rounds |-> [round_number |-> rounds[i]]]]
    IN  SortByRound(
            LeftJoin(LeftJoin(LeftJoin(Rounds(UniqueRounds(<<ttfk, ttbp, avg_death>>, ord)),
                                       ttfk), ttbp), avg_death))

\* The frame a metric function returns for the rounds R, listed in the order
\* ord: one row for each round, the metric in seconds.
MetricFrame(k, R, ord) ==
    LET Rows(rounds) ==
            [i \in DOMAIN rounds |->
                ("round_number" :> PyInt(rounds[i]))
                    @@ (MetricColumns[k] :> PyInt(10 * rounds[i] + k))]
    IN  [columns |-> <<"round_number", MetricColumns[k]>>,
         rows |-> Rows(Enumerate(R, ord))]

MetricFrames(k) ==
    { MetricFrame(k, R, ord) : R \in SUBSET (1..MaxRound), ord \in ListingOrders }

InitPacing ==
    /\ root = MissingRoot
    /\ indexFile = [kind |-> "absent", doc |-> NoManifest]
    /\ strategy = TreeStrategy
    /\ table = NoTable
    /\ op = [name |-> "init", prev |-> NoRet]
    /\ ret = NoRet
    /\ clock = 1
    /\ NoIngestion
    /\ metrics \in [ttfk : MetricFrames(1), ttbp : MetricFrames(2),
                    avg_death : MetricFrames(3)]

\* pacing.summarize_pacing(ttfk=..., ttbp=..., avg_death=...)
SummarizePacingCall ==
    /\ op.name = "init"
    /\ \E ord \in Orders :
         ret' = [kind |-> "frame",
                 frame |-> SummarizePacing(metrics.ttfk, metrics.ttbp,
                                           metrics.avg_death, ord)]
    /\ op' = [name |-> "summarize_pacing", prev |-> ret]
    /\ UNCHANGED <<root, indexFile, strategy, table, clock,
                   manifestFile, sourceFiles, DemoParser, metrics>>

NextPacing == SummarizePacingCall

SpecPacing == InitPacing /\ [][NextPacing]_vars

\* The rounds with a row in a metric frame.
RoundsOf(frame) == Range(SelectRounds(frame))

\* The value a metric frame holds for a round, null when it has no row.
MetricOf(frame, round) ==
    IF round \in RoundsOf(frame)
    THEN (CHOOSE row \in Range(frame.rows) : row.round_number = round)[frame.columns[2]]
    ELSE None

\* C20: summarize_pacing returns one row for each round of any of the three
\* inputs, ascending by round_number, with round_number and one column for
\* each metric; a row holds the value of each input that has the round and
\* null for each input that has not.
C20_SummaryHasEveryRoundOnce ==
    op.name = "summarize_pacing" =>
        LET rows == ret.frame.rows
            inputs == <<metrics.ttfk, metrics.ttbp, metrics.avg_death>>
        IN  /\ ret.frame.columns = <<"round_number">> \o MetricColumns
            /\ Range(SelectRounds(ret.frame)) =
                   RoundsOf(inputs[1]) \cup RoundsOf(inputs[2]) \cup RoundsOf(inputs[3])
            /\ \A i, j \in DOMAIN rows :
                   i < j => rows[i].round_number.v < rows[j].round_number.v
            /\ \A i \in DOMAIN rows :
                   /\ DOMAIN rows[i] = {"round_number"} \cup Range(MetricColumns)
                   /\ \A k \in 1..3 :
                         rows[i][MetricColumns[k]] =
                             MetricOf(inputs[k], rows[i].round_number)

\* The summary of the repository's test: rounds 1 and 2 in ttfk, 2 in ttbp,
\* 1 and 3 in avg_death give three rows, the last of round 3 with a null
\* time_to_first_kill.
C20_Witness ==
    /\ op.name = "summarize_pacing"
    /\ RoundsOf(metrics.ttfk) = {PyInt(1), PyInt(2)}
    /\ RoundsOf(metrics.ttbp) = {PyInt(2)}
    /\ RoundsOf(metrics.avg_death) = {PyInt(1), PyInt(3)}
    /\ Len(ret.frame.rows) = 3
    /\ ret.frame.rows[3].round_number = PyInt(3)
    /\ ret.frame.rows[3].time_to_first_kill = None

====
